---- MODULE Spec2Model ----
(***************************************************************************)
(* Model of the analysis layer (src/utils/analyse.py), the chart layer     *)
(* (src/utils/visualise.py), the session loader (src/utils/data_loader.py) *)
(* and the pages of the F1 dashboard.  The state is the tables and series  *)
(* a caller holds, the name of the function it called last and the value   *)
(* that call produced (a return value or a raised exception).  What a call *)
(* leaves of the tables it was given is computed from the statements of    *)
(* the function's body (section Objects).                                  *)
(*                                                                         *)
(* Numbers.  A float is modelled as an exact rational or NaN:              *)
(*   [na |-> BOOLEAN, num |-> Int, den |-> Nat \ {0}]   (reduced, den > 0) *)
(* A timedelta is the float of its total_seconds(); NaT is NaN.  A         *)
(* standard deviation is k * sqrt(num/den), kept exactly as                *)
(*   [na |-> BOOLEAN, k |-> Int, num |-> Int, den |-> Nat \ {0}].          *)
(* Lap times, speeds and distances are positive, as durations are.         *)
(***************************************************************************)
EXTENDS Integers, Sequences, FiniteSets, TLC

VARIABLES
    lap_times,     \* the pd.Series handed to the series functions
    laps_df,       \* the lap table: [columns |-> set of names, rows |-> Seq(row)]
    telemetry_df,  \* the telemetry table, same shape
    telemetry2,    \* the second telemetry table of compare_telemetry_delta
    drivers,       \* the list of driver codes handed to the chart functions
    cache,         \* the store of st.cache_data: cache key |-> cached return value
    session_state, \* st.session_state: the keys set so far |-> their values
    called,        \* name of the function called last, "none" before any call
    param,         \* the argument of that call (threshold, exclude_first_laps, session, ...)
    result         \* what that call produced: [kind |-> ..., value |-> ...]

vars ==
    <<lap_times, laps_df, telemetry_df, telemetry2, drivers, cache, session_state,
      called, param, result>>

----------------------------------------------------------------------------
(* Bounds of the model *)

MaxSeries == 4      \* longest lap-time series
MaxGapRows == 3     \* most rows of the table given to calculate_gap_to_leader
MaxSamples == 4     \* most telemetry samples
MaxStintRows == 6   \* most rows of the table given to create_tire_strategy_chart
MaxPaceRows == 5    \* most rows of the table given to calculate_race_pace
MaxColRows == 1     \* most rows of the tables whose columns vary
MaxOvertakeRows == 5 \* most rows of the position table given to calculate_overtakes
MaxPitRows == 3     \* most rows of the lap table given to calculate_pit_stop_delta
MaxStatRows == 3    \* most laps of the table given to the three pace statistics
MaxDegRows == 4     \* most laps of the table given to calculate_tire_degradation
MaxQualiRows == 4   \* most laps of a qualifying session
MaxSpeedSamples == 4 \* most samples of the telemetry given to calculate_speed_trap_stats
MaxFrameRows == 2   \* most laps of the table handed to several functions in turn
MaxDeltaSamples == 3 \* most samples of each trace given to compare_telemetry_delta
MaxSectorRows == 2  \* most laps of the table given to calculate_sector_analysis
MaxChartRows == 3   \* most laps of the table given to the lap-time and position charts
MaxColourRows == 2  \* most laps of the table whose team and compounds run over all names
MaxSectorChartRows == 2 \* most laps of the table given to create_sector_times_chart
MaxLiveRows == 3    \* most laps of the session shown in the Live Standings tab
MaxCacheEntries == 2 \* most entries of the st.cache_data cache alive at once

----------------------------------------------------------------------------
(* Floats: exact rationals and NaN *)

Abs(x) == IF x < 0 THEN -x ELSE x

RECURSIVE GCD(_, _)
GCD(a, b) == IF b = 0 THEN a ELSE GCD(b, a % b)

NaN == [na |-> TRUE, num |-> 0, den |-> 1]

Rat(n, d) ==
    LET g == GCD(Abs(n), Abs(d))
        s == IF d < 0 THEN -1 ELSE 1
    IN  [na |-> FALSE, num |-> s * (n \div g), den |-> s * (d \div g)]

Flt(n) == [na |-> FALSE, num |-> n, den |-> 1]

isna(x) == x.na

FAdd(x, y) == IF x.na \/ y.na THEN NaN
              ELSE Rat(x.num * y.den + y.num * x.den, x.den * y.den)

FSub(x, y) == IF x.na \/ y.na THEN NaN
              ELSE Rat(x.num * y.den - y.num * x.den, x.den * y.den)

FMul(x, y) == IF x.na \/ y.na THEN NaN
              ELSE Rat(x.num * y.num, x.den * y.den)

\* x / y; a division by zero gives inf or nan in numpy, both kept as NaN here
FDiv(x, y) == IF x.na \/ y.na \/ y.num = 0 THEN NaN
              ELSE Rat(x.num * y.den, x.den * y.num)

\* comparisons with NaN are False
FLt(x, y) == ~x.na /\ ~y.na /\ x.num * y.den < y.num * x.den

FGt(x, y) == FLt(y, x)

FLe(x, y) == ~x.na /\ ~y.na /\ x.num * y.den <= y.num * x.den

(* k * sqrt(num/den) *)
RootNaN == [na |-> TRUE, k |-> 0, num |-> 0, den |-> 1]

\* sqrt of a float: NaN for NaN and for a negative radicand
FSqrt(x) == IF x.na \/ x.num < 0 THEN RootNaN
            ELSE [na |-> FALSE, k |-> 1, num |-> x.num, den |-> x.den]

\* r / x for a positive float x
RootDiv(r, x) ==
    IF r.na \/ x.na \/ x.num <= 0 THEN RootNaN
    ELSE LET q == FDiv([na |-> FALSE, num |-> r.num, den |-> r.den], FMul(x, x))
         IN  [na |-> FALSE, k |-> r.k, num |-> q.num, den |-> q.den]

\* r * n for an integer n
RootScale(r, n) == IF r.na THEN RootNaN ELSE [r EXCEPT !.k = r.k * n]

----------------------------------------------------------------------------
(* pandas Series: a sequence of floats *)

\* Series.dropna()
RECURSIVE dropna(_)
dropna(s) ==
    IF s = <<>> THEN <<>>
    ELSE IF isna(Head(s)) THEN dropna(Tail(s))
         ELSE <<Head(s)>> \o dropna(Tail(s))

RECURSIVE SeqSum(_)
SeqSum(s) == IF s = <<>> THEN Flt(0) ELSE FAdd(Head(s), SeqSum(Tail(s)))

RECURSIVE SeqSumSq(_)
SeqSumSq(s) ==
    IF s = <<>> THEN Flt(0) ELSE FAdd(FMul(Head(s), Head(s)), SeqSumSq(Tail(s)))

\* Series.min(): NaN skipped, NaN when nothing is left
RECURSIVE SeriesMin(_)
SeriesMin(s) ==
    IF s = <<>> THEN NaN
    ELSE LET m == SeriesMin(Tail(s))
         IN  IF isna(Head(s)) THEN m
             ELSE IF isna(m) \/ FLt(Head(s), m) THEN Head(s) ELSE m

\* Series.max()
RECURSIVE SeriesMax(_)
SeriesMax(s) ==
    IF s = <<>> THEN NaN
    ELSE LET m == SeriesMax(Tail(s))
         IN  IF isna(Head(s)) THEN m
             ELSE IF isna(m) \/ FGt(Head(s), m) THEN Head(s) ELSE m

\* Series.mean(): sum of the valid values over their count
SeriesMean(s) ==
    LET v == dropna(s)
    IN  IF Len(v) = 0 THEN NaN ELSE FDiv(SeqSum(v), Flt(Len(v)))

\* sample variance (ddof = 1): (n * sum(x^2) - sum(x)^2) / (n * (n - 1))
SeriesVar(s) ==
    LET v == dropna(s)
        n == Len(v)
        sm == SeqSum(v)
    IN  IF n < 2 THEN NaN
        ELSE FDiv(FSub(FMul(Flt(n), SeqSumSq(v)), FMul(sm, sm)), Flt(n * (n - 1)))

\* Series.std(): sample standard deviation, NaN for fewer than 2 valid values
SeriesStd(s) == FSqrt(SeriesVar(s))

\* sorted copy of a series without NaN (insertion sort, stable)
RECURSIVE InsertSorted(_, _)
InsertSorted(x, s) ==
    IF s = <<>> THEN <<x>>
    ELSE IF FLt(x, Head(s)) THEN <<x>> \o s
         ELSE <<Head(s)>> \o InsertSorted(x, Tail(s))

RECURSIVE SortedValues(_)
SortedValues(s) ==
    IF s = <<>> THEN <<>> ELSE InsertSorted(Head(s), SortedValues(Tail(s)))

\* Series.quantile(qn/qd), linear interpolation between the order statistics
\* of the valid values; NaN when there is none
Quantile(s, qn, qd) ==
    LET v == SortedValues(dropna(s))
        n == Len(v)
        j == ((n - 1) * qn) \div qd
        r == ((n - 1) * qn) % qd
    IN  IF n = 0 THEN NaN
        ELSE IF r = 0 THEN v[j + 1]
             ELSE FAdd(v[j + 1], FMul(Rat(r, qd), FSub(v[j + 2], v[j + 1])))

----------------------------------------------------------------------------
(* Results *)

None == [kind |-> "none", value |-> <<>>]

Dict(d) == [kind |-> "dict", value |-> d]

SeriesResult(s) == [kind |-> "series", value |-> s]

\* a DataFrame: the set of its column names and its rows in order
Frame(cols, rows) == [kind |-> "frame", value |-> [columns |-> cols, rows |-> rows]]

\* pd.DataFrame()
EmptyFrame == Frame({}, <<>>)

Figure(traces) == [kind |-> "figure", value |-> traces]

Raise(exc) == [kind |-> "raise", value |-> exc]

----------------------------------------------------------------------------
(* Objects.  A pandas table or series is an object held by reference.  A    *)
(* name of a function body is bound to an object; indexing with a mask, a   *)
(* list of labels or a list of columns, .copy(), pick_driver, groupby().agg *)
(* and merge_asof build a new object; an item assignment changes the object *)
(* its target is bound to, for every holder of that object.  The body of a  *)
(* function is the list of these statements in the order a call executes    *)
(* them; the caller's tables are the objects the parameters are bound to.   *)

\* a row with one more column
WithColumn(row, c, v) == [k \in DOMAIN row \cup {c} |-> IF k = c THEN v ELSE row[k]]

\* a row restricted to some of its columns
Restrict(row, cols) == [k \in cols |-> row[k]]

\* the rows of a table at the positions where a boolean mask is True
RECURSIVE MaskRows(_, _)
MaskRows(rows, mask) ==
    IF rows = <<>> THEN <<>>
    ELSE IF Head(mask) THEN <<Head(rows)>> \o MaskRows(Tail(rows), Tail(mask))
         ELSE MaskRows(Tail(rows), Tail(mask))

\* dst = src[mask], src[mask].copy() or src.pick_driver(d): a new table with
\* the rows of src under a boolean mask
Filter(dst, src, mask) == [op |-> "filter", dst |-> dst, src |-> src, mask |-> mask]

\* dst = src.loc[labels] or src.sort_values(...): a new table with the rows of
\* src at the given positions, in that order
Loc(dst, src, positions) == [op |-> "loc", dst |-> dst, src |-> src, positions |-> positions]

\* dst = src[[columns]]: a new table with some of the columns of src
Select(dst, src, cols) == [op |-> "select", dst |-> dst, src |-> src, cols |-> cols]

\* dst = a table or series built from values: a column read or converted,
\* dropna(), a comparison, groupby().agg(), merge_asof, pd.DataFrame(), concat
Make(dst, value) == [op |-> "make", dst |-> dst, value |-> value]

\* target[column] = values
Assign(target, column, values) ==
    [op |-> "assign", target |-> target, column |-> column, values |-> values]

\* target.columns = the new labels, given for each label the table has
SetColumns(target, labels) == [op |-> "columns", target |-> target, labels |-> labels]

\* dst = src: a second name for the object of src
Alias(dst, src) == [op |-> "alias", dst |-> dst, src |-> src]

\* the bindings after a name is bound to an object
Bound(env, name, id) ==
    [n \in DOMAIN env \cup {name} |-> IF n = name THEN id ELSE env[n]]

\* a table after table[column] = values: the column is added or replaced in
\* place; a table that has no column yet takes its rows from the values
AssignColumn(table, c, values) ==
    IF table.columns = {}
    THEN [columns |-> {c},
          rows |-> [i \in 1..Len(values) |-> [k \in {c} |-> values[i]]]]
    ELSE [columns |-> table.columns \cup {c},
          rows |-> [i \in 1..Len(table.rows) |-> WithColumn(table.rows[i], c, values[i])]]

\* a table after table.columns = labels
Relabel(table, labels) ==
    LET new == {labels[c] : c \in table.columns}
        old(n) == CHOOSE c \in table.columns : labels[c] = n
    IN  [columns |-> new,
         rows |-> [i \in 1..Len(table.rows) |-> [n \in new |-> table.rows[i][old(n)]]]]

\* the objects and bindings after one statement; a new object takes the next
\* free place of the heap
Execute(s, st) ==
    LET new == Len(st.heap) + 1
        src == st.heap[st.env[s.src]]
    IN  CASE s.op = "filter" ->
                [heap |-> Append(st.heap, [columns |-> src.columns,
                                           rows |-> MaskRows(src.rows, s.mask)]),
                 env |-> Bound(st.env, s.dst, new)]
          [] s.op = "loc" ->
                [heap |-> Append(st.heap,
                                 [columns |-> src.columns,
                                  rows |-> [i \in 1..Len(s.positions) |->
                                               src.rows[s.positions[i]]]]),
                 env |-> Bound(st.env, s.dst, new)]
          [] s.op = "select" ->
                [heap |-> Append(st.heap,
                                 [columns |-> s.cols,
                                  rows |-> [i \in 1..Len(src.rows) |->
                                               Restrict(src.rows[i], s.cols)]]),
                 env |-> Bound(st.env, s.dst, new)]
          [] s.op = "make" ->
                [heap |-> Append(st.heap, s.value), env |-> Bound(st.env, s.dst, new)]
          [] s.op = "alias" ->
                [heap |-> st.heap, env |-> Bound(st.env, s.dst, st.env[s.src])]
          [] s.op = "assign" ->
                [heap |-> [st.heap EXCEPT ![st.env[s.target]] =
                              AssignColumn(@, s.column, s.values)],
                 env |-> st.env]
          [] s.op = "columns" ->
                [heap |-> [st.heap EXCEPT ![st.env[s.target]] = Relabel(@, s.labels)],
                 env |-> st.env]

RECURSIVE Run(_, _)
Run(body, st) ==
    IF body = <<>> THEN st ELSE Run(Tail(body), Execute(Head(body), st))

\* a call: the parameters are bound, in order, to the objects the caller
\* passes, and the body runs
Call(params, given, body) ==
    Run(body, [heap |-> given,
               env |-> [n \in {params[i] : i \in 1..Len(params)} |->
                           CHOOSE i \in 1..Len(params) : params[i] = n]])

\* the caller's i-th argument after the call
ArgAfter(params, given, body, i) == Call(params, given, body).heap[i]

\* the object a name of the body is bound to when the call returns
Local(params, given, body, name) ==
    LET st == Call(params, given, body) IN st.heap[st.env[name]]

----------------------------------------------------------------------------
(* calculate_pace_consistency *)

\* mutant: the length test looks at the series before dropna
Mut_pace_len_before_dropna(s) ==
    LET valid_laps == dropna(s)
    IN  IF Len(s) < 2
        THEN Dict([mean |-> NaN, std |-> RootNaN, coefficient_of_variation |-> RootNaN,
                   fastest |-> NaN, slowest |-> NaN])
        ELSE Dict([mean |-> SeriesMean(valid_laps),
                   std |-> SeriesStd(valid_laps),
                   coefficient_of_variation |->
                       RootScale(RootDiv(SeriesStd(valid_laps), SeriesMean(valid_laps)), 100),
                   fastest |-> SeriesMin(valid_laps),
                   slowest |-> SeriesMax(valid_laps)])

\* mutant: fastest and slowest exchanged
Mut_pace_fastest_is_max(s) ==
    LET valid_laps == dropna(s)
    IN  IF Len(valid_laps) < 2
        THEN Dict([mean |-> NaN, std |-> RootNaN, coefficient_of_variation |-> RootNaN,
                   fastest |-> NaN, slowest |-> NaN])
        ELSE Dict([mean |-> SeriesMean(valid_laps),
                   std |-> SeriesStd(valid_laps),
                   coefficient_of_variation |->
                       RootScale(RootDiv(SeriesStd(valid_laps), SeriesMean(valid_laps)), 100),
                   fastest |-> SeriesMax(valid_laps),
                   slowest |-> SeriesMin(valid_laps)])

calculate_pace_consistency(s) ==
    LET valid_laps == dropna(s)
    IN  IF Len(valid_laps) < 2
        THEN Dict([mean |-> NaN, std |-> RootNaN, coefficient_of_variation |-> RootNaN,
                   fastest |-> NaN, slowest |-> NaN])
        ELSE Dict([mean |-> SeriesMean(valid_laps),
                   std |-> SeriesStd(valid_laps),
                   coefficient_of_variation |->
                       RootScale(RootDiv(SeriesStd(valid_laps), SeriesMean(valid_laps)), 100),
                   fastest |-> SeriesMin(valid_laps),
                   slowest |-> SeriesMax(valid_laps)])

----------------------------------------------------------------------------
(* identify_outliers *)

\* mutant: the band is taken inwards, Q1 + threshold * IQR and Q3 - threshold * IQR
Mut_outliers_band_inwards(s, threshold) ==
    LET Q1 == Quantile(s, 1, 4)
        Q3 == Quantile(s, 3, 4)
        IQR == FSub(Q3, Q1)
        lower_bound == FAdd(Q1, FMul(threshold, IQR))
        upper_bound == FSub(Q3, FMul(threshold, IQR))
    IN  [i \in 1..Len(s) |-> FLt(s[i], lower_bound) \/ FGt(s[i], upper_bound)]

\* mutant: the comparisons with the bounds are not strict
Mut_outliers_not_strict(s, threshold) ==
    LET Q1 == Quantile(s, 1, 4)
        Q3 == Quantile(s, 3, 4)
        IQR == FSub(Q3, Q1)
        lower_bound == FSub(Q1, FMul(threshold, IQR))
        upper_bound == FAdd(Q3, FMul(threshold, IQR))
    IN  [i \in 1..Len(s) |-> FLe(s[i], lower_bound) \/ FLe(upper_bound, s[i])]

identify_outliers(s, threshold) ==
    LET Q1 == Quantile(s, 1, 4)
        Q3 == Quantile(s, 3, 4)
        IQR == FSub(Q3, Q1)
        lower_bound == FSub(Q1, FMul(threshold, IQR))
        upper_bound == FAdd(Q3, FMul(threshold, IQR))
    IN  [i \in 1..Len(s) |-> FLt(s[i], lower_bound) \/ FGt(s[i], upper_bound)]

\* the default of the threshold parameter, 1.5
DefaultThreshold == Rat(3, 2)

----------------------------------------------------------------------------
(* Inputs *)

RECURSIVE SeqsUpTo(_, _)
SeqsUpTo(S, n) ==
    IF n = 0 THEN {<<>>}
    ELSE LET shorter == SeqsUpTo(S, n - 1)
         IN  shorter \cup {Append(s, x) : s \in {t \in shorter : Len(t) = n - 1}, x \in S}

NoFrame == [columns |-> {}, rows |-> <<>>]

\* nothing cached yet, and no key of st.session_state set yet
NoCache == [k \in {} |-> None]
NoSessionState == [k \in {} |-> None]

\* lap times in seconds; NaN is an absent lap time
LapTimeValues == {Flt(89), Flt(90), Flt(91), Flt(150), NaN}

Thresholds == {Flt(0), Flt(1), Rat(3, 2), Flt(3)}

----------------------------------------------------------------------------
(* The series functions: calculate_pace_consistency and identify_outliers *)

InitSeries ==
    /\ lap_times \in SeqsUpTo(LapTimeValues, MaxSeries)
    /\ laps_df = NoFrame
    /\ telemetry_df = NoFrame
    /\ telemetry2 = NoFrame
    /\ drivers = <<>>
    /\ called = "none"
    /\ param = NaN
    /\ result = None
    /\ cache = NoCache
    /\ session_state = NoSessionState

\* the statements of calculate_pace_consistency: valid_laps = lap_times.dropna()
\* (line 37)
PaceConsistencyBody(s) == <<Make("valid_laps", dropna(s))>>

CallPaceConsistency ==
    /\ called' = "calculate_pace_consistency"
    /\ param' = NaN
    /\ result' = calculate_pace_consistency(lap_times)
    /\ lap_times' = ArgAfter(<<"lap_times">>, <<lap_times>>,
                             PaceConsistencyBody(lap_times), 1)
    /\ UNCHANGED <<laps_df, telemetry_df, telemetry2, drivers, cache, session_state>>

\* the statements of identify_outliers: the comparisons of line 98 build the
\* series it returns
IdentifyOutliersBody(s, threshold) == <<Make("return", identify_outliers(s, threshold))>>

CallIdentifyOutliers ==
    \E t \in Thresholds :
        /\ called' = "identify_outliers"
        /\ param' = t
        /\ result' = SeriesResult(identify_outliers(lap_times, t))
        /\ lap_times' = ArgAfter(<<"lap_times">>, <<lap_times>>,
                                 IdentifyOutliersBody(lap_times, t), 1)
        /\ UNCHANGED <<laps_df, telemetry_df, telemetry2, drivers, cache, session_state>>

NextSeries == CallPaceConsistency \/ CallIdentifyOutliers

SpecSeries == InitSeries /\ [][NextSeries]_vars

----------------------------------------------------------------------------
(* pandas DataFrame helpers.  A table is [columns, rows]; a row is a       *)
(* function from the table's column names to values.  df[mask] with a      *)
(* row-wise condition is SelectSeq over the rows.                          *)

\* Series.unique(): the distinct values of a column in order of first appearance
RECURSIVE Unique(_, _)
Unique(vals, seen) ==
    IF vals = <<>> THEN <<>>
    ELSE IF Head(vals) \in seen THEN Unique(Tail(vals), seen)
         ELSE <<Head(vals)>> \o Unique(Tail(vals), seen \cup {Head(vals)})

Column(rows, c) == [i \in 1..Len(rows) |-> rows[i][c]]

\* bool(Timedelta): a zero duration is falsy; NaT, like every other value, is truthy
Truthy(td) == td.na \/ td.num # 0

----------------------------------------------------------------------------
(* calculate_gap_to_leader *)

\* the loop body for one lap number: the rows it appends to gaps, or the
\* exception it raises
GapLap(df, lap_num) ==
    LET lap_data == SelectSeq(df.rows, LAMBDA r : r.LapNumber = lap_num)
        leaders == SelectSeq(lap_data, LAMBDA r : r.Position = Flt(1))
    IN  IF Len(lap_data) > 0 /\ Len(leaders) = 0
        THEN [raised |-> TRUE, rows |-> <<>>]      \* .iloc[0] of an empty selection
        ELSE IF Len(lap_data) > 0 /\ Truthy(leaders[1].LapTime)
             THEN [raised |-> FALSE,
                   rows |-> [i \in 1..Len(lap_data) |->
                                WithColumn(lap_data[i], "GapToLeader",
                                           FSub(lap_data[i].LapTime, leaders[1].LapTime))]]
             ELSE [raised |-> FALSE, rows |-> <<>>]

RECURSIVE GapLoop(_, _, _)
GapLoop(df, lap_nums, gaps) ==
    IF lap_nums = <<>>
    THEN IF gaps = <<>> THEN EmptyFrame
         ELSE Frame(df.columns \cup {"GapToLeader"}, gaps)
    ELSE LET step == GapLap(df, Head(lap_nums))
         IN  IF step.raised THEN Raise("IndexError")
             ELSE GapLoop(df, Tail(lap_nums), gaps \o step.rows)

calculate_gap_to_leader(df) ==
    IF "LapTime" \notin df.columns \/ "Position" \notin df.columns THEN EmptyFrame
    ELSE IF "LapNumber" \notin df.columns THEN Raise("KeyError")
    ELSE GapLoop(df, Unique(Column(df.rows, "LapNumber"), {}), <<>>)

----------------------------------------------------------------------------
(* calculate_gap_to_leader on lap tables with all their columns *)

GapDrivers == {"VER", "HAM"}
GapLapNumbers == {1, 2}
GapPositions == {Flt(1), Flt(2), NaN}
GapLapTimes == {Flt(90), Flt(92), NaN}

GapColumns == {"Driver", "LapNumber", "Position", "LapTime"}

GapRows ==
    [Driver : GapDrivers, LapNumber : GapLapNumbers,
     Position : GapPositions, LapTime : GapLapTimes]

\* one lap per driver and lap number, and no two drivers in one position on a lap
GapTableOK(rows) ==
    \A i, j \in 1..Len(rows) : i # j =>
        /\ ~(rows[i].Driver = rows[j].Driver /\ rows[i].LapNumber = rows[j].LapNumber)
        /\ ~(/\ rows[i].LapNumber = rows[j].LapNumber
             /\ ~rows[i].Position.na
             /\ rows[i].Position = rows[j].Position)

RECURSIVE GapTables(_)
GapTables(n) ==
    IF n = 0 THEN {<<>>}
    ELSE LET shorter == GapTables(n - 1)
         IN  shorter \cup
             {v \in {Append(t, r) : t \in {u \in shorter : Len(u) = n - 1},
                                    r \in GapRows} : GapTableOK(v)}

InitGap ==
    /\ lap_times = <<>>
    /\ laps_df \in {[columns |-> GapColumns, rows |-> t] :
                       t \in GapTables(MaxGapRows)}
    /\ telemetry_df = NoFrame
    /\ telemetry2 = NoFrame
    /\ drivers = <<>>
    /\ called = "none"
    /\ param = NaN
    /\ result = None
    /\ cache = NoCache
    /\ session_state = NoSessionState

\* the gap column of a table whose rows are all laps_df's: each lap's time
\* minus that of the leader of its lap number
GapOnTable(df) ==
    [i \in 1..Len(df.rows) |->
        LET leaders == SelectSeq(df.rows, LAMBDA r : /\ r.LapNumber = df.rows[i].LapNumber
                                                     /\ r.Position = Flt(1))
        IN  IF leaders = <<>> THEN NaN ELSE FSub(df.rows[i].LapTime, leaders[1].LapTime)]

\* mutant: lap_data is the caller's table itself, lap_data = laps_df, and the
\* gap column is assigned on it
Mut_gap_assigns_on_input(df) ==
    IF ~({"LapTime", "Position", "LapNumber"} \subseteq df.columns) THEN <<>>
    ELSE <<Alias("lap_data", "laps_df"), Assign("lap_data", "GapToLeader", GapOnTable(df))>>

\* the statements of one turn of the loop of calculate_gap_to_leader: lap_data
\* is a copy of the selected rows (line 323), and the gap column is assigned on
\* it when the leader's time is truthy (lines 326-327)
GapLapBody(df, lap_num) ==
    LET step == GapLap(df, lap_num)
    IN  <<Filter("lap_data", "laps_df",
                 [i \in 1..Len(df.rows) |-> df.rows[i].LapNumber = lap_num])>>
        \o (IF ~step.raised /\ step.rows # <<>>
            THEN <<Assign("lap_data", "GapToLeader", Column(step.rows, "GapToLeader"))>>
            ELSE <<>>)

\* the turns of the loop, up to the one that raises
RECURSIVE GapLoopBody(_, _)
GapLoopBody(df, lap_nums) ==
    IF lap_nums = <<>> THEN <<>>
    ELSE GapLapBody(df, Head(lap_nums))
         \o (IF GapLap(df, Head(lap_nums)).raised THEN <<>>
             ELSE GapLoopBody(df, Tail(lap_nums)))

\* the statements of calculate_gap_to_leader (lines 317-330); pd.concat builds
\* the table it returns
GapToLeaderBody(df) ==
    IF ~({"LapTime", "Position", "LapNumber"} \subseteq df.columns) THEN <<>>
    ELSE LET returned == calculate_gap_to_leader(df)
         IN  GapLoopBody(df, Unique(Column(df.rows, "LapNumber"), {}))
             \o (IF returned.kind = "frame" /\ returned.value.rows # <<>>
                 THEN <<Make("return", returned.value)>>
                 ELSE <<>>)

CallGapToLeader ==
    /\ called' = "calculate_gap_to_leader"
    /\ param' = NaN
    /\ result' = calculate_gap_to_leader(laps_df)
    /\ laps_df' = ArgAfter(<<"laps_df">>, <<laps_df>>, GapToLeaderBody(laps_df), 1)
    /\ UNCHANGED <<lap_times, telemetry_df, telemetry2, drivers, cache, session_state>>

NextGap == CallGapToLeader

SpecGap == InitGap /\ [][NextGap]_vars

----------------------------------------------------------------------------
(* calculate_brake_points *)

\* telemetry_df['Brake'] > threshold
Braking(rows, threshold) == [i \in 1..Len(rows) |-> FGt(rows[i].Brake, threshold)]

\* braking.shift(1, fill_value=False)
ShiftFalse(b) == [i \in 1..Len(b) |-> IF i = 1 THEN FALSE ELSE b[i - 1]]

BrakeColumns == {"Distance", "Speed", "Brake"}

\* mutant: a level detector, every sample above the threshold is returned
Mut_brake_level_detector(df, threshold) ==
    IF "Brake" \notin df.columns \/ "Distance" \notin df.columns THEN EmptyFrame
    ELSE LET braking == Braking(df.rows, threshold)
             picked == MaskRows(df.rows, braking)
         IN  IF ~(BrakeColumns \subseteq df.columns) THEN Raise("KeyError")
             ELSE Frame(BrakeColumns,
                        [i \in 1..Len(picked) |-> Restrict(picked[i], BrakeColumns)])

calculate_brake_points(df, threshold) ==
    IF "Brake" \notin df.columns \/ "Distance" \notin df.columns THEN EmptyFrame
    ELSE LET braking == Braking(df.rows, threshold)
             shifted == ShiftFalse(braking)
             brake_starts == [i \in 1..Len(braking) |-> braking[i] /\ ~shifted[i]]
             picked == MaskRows(df.rows, brake_starts)
         IN  IF ~(BrakeColumns \subseteq df.columns) THEN Raise("KeyError")
             ELSE Frame(BrakeColumns,
                        [i \in 1..Len(picked) |-> Restrict(picked[i], BrakeColumns)])

\* the default of the threshold parameter
DefaultBrakeThreshold == 50

----------------------------------------------------------------------------
(* calculate_brake_points on telemetry with all its columns *)

BrakeValues == {Flt(0), Flt(50), Flt(80), Flt(100), NaN}

BrakeThresholds == {Flt(DefaultBrakeThreshold), Flt(80)}

TelemetryColumns == {"Distance", "Speed", "Brake", "Throttle"}

\* sample i of a lap: the distance grows and the speed changes along the lap
Sample(i, brake) ==
    [Distance |-> Flt(100 * i), Speed |-> Flt(300 - 20 * i),
     Brake |-> brake, Throttle |-> IF brake = Flt(0) THEN Flt(100) ELSE Flt(0)]

InitBrake ==
    /\ lap_times = <<>>
    /\ laps_df = NoFrame
    /\ telemetry_df \in {[columns |-> TelemetryColumns,
                          rows |-> [i \in 1..Len(b) |-> Sample(i, b[i])]] :
                            b \in SeqsUpTo(BrakeValues, MaxSamples)}
    /\ telemetry2 = NoFrame
    /\ drivers = <<>>
    /\ called = "none"
    /\ param = NaN
    /\ result = None
    /\ cache = NoCache
    /\ session_state = NoSessionState

\* the statements of calculate_brake_points (lines 168-171): the masks, the
\* rows under brake_starts and the three columns taken of them
BrakePointsBody(df, threshold) ==
    IF "Brake" \notin df.columns \/ "Distance" \notin df.columns THEN <<>>
    ELSE LET braking == Braking(df.rows, threshold)
             shifted == ShiftFalse(braking)
             brake_starts == [i \in 1..Len(braking) |-> braking[i] /\ ~shifted[i]]
         IN  <<Make("braking", braking),
               Make("brake_starts", brake_starts),
               Filter("brake_points", "telemetry_df", brake_starts)>>
             \o (IF BrakeColumns \subseteq df.columns
                 THEN <<Select("brake_points", "brake_points", BrakeColumns)>>
                 ELSE <<>>)

CallBrakePoints ==
    \E t \in BrakeThresholds :
        /\ called' = "calculate_brake_points"
        /\ param' = t
        /\ result' = calculate_brake_points(telemetry_df, t)
        /\ telemetry_df' = ArgAfter(<<"telemetry_df">>, <<telemetry_df>>,
                                    BrakePointsBody(telemetry_df, t), 1)
        /\ UNCHANGED <<lap_times, laps_df, telemetry2, drivers, cache, session_state>>

NextBrake == CallBrakePoints

SpecBrake == InitBrake /\ [][NextBrake]_vars

----------------------------------------------------------------------------
(* calculate_race_pace *)

\* an absent (None / NaN) compound
NoCompound == "<absent>"

\* the compound labels in the order groupby sorts its keys (alphabetical)
CompoundsSorted ==
    <<"HARD", "INTERMEDIATE", "MEDIUM", "SOFT", "TEST-UNKNOWN", "UNKNOWN", "WET">>

\* groupby('Compound').agg({'LapTime': ['count', 'mean', 'std', 'min']}).reset_index()
\* with the columns renamed: one row per compound present among the rows
\* (rows with an absent compound are dropped), in sorted key order
PaceColumns == {"Compound", "LapCount", "AvgLapTime", "StdDev", "FastestLap"}

PaceRow(rows, c) ==
    LET times == Column(SelectSeq(rows, LAMBDA r : r.Compound = c), "LapTime")
    IN  [Compound |-> c,
         LapCount |-> Len(dropna(times)),
         AvgLapTime |-> SeriesMean(times),
         StdDev |-> SeriesStd(times),
         FastestLap |-> SeriesMin(times)]

RECURSIVE GroupByCompound(_, _)
GroupByCompound(rows, keys) ==
    IF keys = <<>> THEN <<>>
    ELSE IF \E i \in 1..Len(rows) : rows[i].Compound = Head(keys)
         THEN <<PaceRow(rows, Head(keys))>> \o GroupByCompound(rows, Tail(keys))
         ELSE GroupByCompound(rows, Tail(keys))

\* mutant: the outliers are removed within each compound, before grouping
RECURSIVE PerCompoundKept(_, _)
PerCompoundKept(rows, keys) ==
    IF keys = <<>> THEN <<>>
    ELSE LET group == SelectSeq(rows, LAMBDA r : r.Compound = Head(keys))
             outliers == identify_outliers(Column(group, "LapTime"), DefaultThreshold)
         IN  MaskRows(group, [i \in 1..Len(group) |-> ~outliers[i]])
                 \o PerCompoundKept(rows, Tail(keys))

Mut_race_pace_per_compound(df, exclude_first_laps) ==
    IF "LapNumber" \notin df.columns THEN Raise("KeyError")
    ELSE LET valid_laps == SelectSeq(df.rows, LAMBDA r : r.LapNumber > exclude_first_laps)
         IN  IF "LapTime" \notin df.columns THEN EmptyFrame
             ELSE IF "Compound" \notin df.columns THEN Raise("KeyError")
                  ELSE Frame(PaceColumns,
                             GroupByCompound(PerCompoundKept(valid_laps, CompoundsSorted),
                                             CompoundsSorted))

\* mutant: the outliers are looked for among all laps, the first ones included
Mut_race_pace_outliers_first(df, exclude_first_laps) ==
    IF "LapNumber" \notin df.columns THEN Raise("KeyError")
    ELSE IF "LapTime" \notin df.columns THEN EmptyFrame
         ELSE LET outliers == identify_outliers(Column(df.rows, "LapTime"), DefaultThreshold)
                  kept == MaskRows(df.rows, [i \in 1..Len(df.rows) |-> ~outliers[i]])
                  valid_laps == SelectSeq(kept, LAMBDA r : r.LapNumber > exclude_first_laps)
              IN  IF "Compound" \notin df.columns THEN Raise("KeyError")
                  ELSE Frame(PaceColumns, GroupByCompound(valid_laps, CompoundsSorted))

calculate_race_pace(df, exclude_first_laps) ==
    IF "LapNumber" \notin df.columns THEN Raise("KeyError")
    ELSE LET valid_laps == SelectSeq(df.rows, LAMBDA r : r.LapNumber > exclude_first_laps)
         IN  IF "LapTime" \notin df.columns THEN EmptyFrame
             ELSE LET lap_times_s == Column(valid_laps, "LapTime")
                      outliers == identify_outliers(lap_times_s, DefaultThreshold)
                      kept == MaskRows(valid_laps,
                                       [i \in 1..Len(valid_laps) |-> ~outliers[i]])
                  IN  IF "Compound" \notin df.columns THEN Raise("KeyError")
                      ELSE Frame(PaceColumns, GroupByCompound(kept, CompoundsSorted))

\* the default of the exclude_first_laps parameter
DefaultExcludeFirstLaps == 3

----------------------------------------------------------------------------
(* calculate_race_pace on the laps of a stint-by-stint race *)

PaceCompounds == {"SOFT", "MEDIUM"}
PaceLapTimes == {Flt(90), Flt(100), NaN}
PaceExcludes == {1, DefaultExcludeFirstLaps}

PaceInputColumns == {"LapNumber", "Compound", "LapTime"}

PaceCells == [Compound : PaceCompounds, LapTime : PaceLapTimes]

\* lap i of the race
PaceLap(i, cell) == [LapNumber |-> i, Compound |-> cell.Compound, LapTime |-> cell.LapTime]

InitRacePace ==
    /\ lap_times = <<>>
    /\ laps_df \in {[columns |-> PaceInputColumns,
                     rows |-> [i \in 1..Len(c) |-> PaceLap(i, c[i])]] :
                       c \in SeqsUpTo(PaceCells, MaxPaceRows)}
    /\ telemetry_df = NoFrame
    /\ telemetry2 = NoFrame
    /\ drivers = <<>>
    /\ called = "none"
    /\ param = NaN
    /\ result = None
    /\ cache = NoCache
    /\ session_state = NoSessionState

\* the labels groupby().agg().reset_index() gives the columns, and the ones
\* line 253 assigns in their place
PaceLabels ==
    [x \in {"Compound", "LapTime.count", "LapTime.mean", "LapTime.std", "LapTime.min"} |->
        CASE x = "Compound" -> "Compound"
          [] x = "LapTime.count" -> "LapCount"
          [] x = "LapTime.mean" -> "AvgLapTime"
          [] x = "LapTime.std" -> "StdDev"
          [] x = "LapTime.min" -> "FastestLap"]

\* the labels a table had before labels were assigned in their place
Before(labels) ==
    [y \in {labels[x] : x \in DOMAIN labels} |-> CHOOSE x \in DOMAIN labels : labels[x] = y]

\* the statements of calculate_race_pace (lines 238-253): valid_laps is a copy
\* of the laps after the first ones, then the rows of it that are no outliers;
\* the columns of the aggregated table are relabelled in place
RacePaceBody(df, exclude_first_laps) ==
    IF "LapNumber" \notin df.columns THEN <<>>
    ELSE LET after == [i \in 1..Len(df.rows) |-> df.rows[i].LapNumber > exclude_first_laps]
             valid_laps == MaskRows(df.rows, after)
             lap_times_s == Column(valid_laps, "LapTime")
             outliers == identify_outliers(lap_times_s, DefaultThreshold)
             returned == calculate_race_pace(df, exclude_first_laps)
         IN  <<Filter("valid_laps", "laps_df", after)>>
             \o (IF "LapTime" \notin df.columns THEN <<>>
                 ELSE <<Make("lap_times", lap_times_s),
                        Make("outliers", outliers),
                        Filter("valid_laps", "valid_laps",
                               [i \in 1..Len(valid_laps) |-> ~outliers[i]])>>
                      \o (IF "Compound" \notin df.columns THEN <<>>
                          ELSE <<Make("pace_by_compound",
                                      Relabel(returned.value, Before(PaceLabels))),
                                 SetColumns("pace_by_compound", PaceLabels)>>))

CallRacePace ==
    \E k \in PaceExcludes :
        /\ called' = "calculate_race_pace"
        /\ param' = Flt(k)
        /\ result' = calculate_race_pace(laps_df, k)
        /\ laps_df' = ArgAfter(<<"laps_df">>, <<laps_df>>, RacePaceBody(laps_df, k), 1)
        /\ UNCHANGED <<lap_times, telemetry_df, telemetry2, drivers, cache, session_state>>

NextRacePace == CallRacePace

SpecRacePace == InitRacePace /\ [][NextRacePace]_vars

----------------------------------------------------------------------------
(* create_tire_strategy_chart: stint segmentation *)

\* a != b on a column of labels: True as soon as either side is absent
LabelNE(a, b) == a = NoCompound \/ b = NoCompound \/ a # b

\* driver_laps['Compound'] != driver_laps['Compound'].shift(): the first row is
\* compared with the absent value that shift() puts before it
CompoundChange(rows) ==
    [j \in 1..Len(rows) |->
        IF j = 1 THEN LabelNE(rows[1].Compound, NoCompound)
        ELSE LabelNE(rows[j].Compound, rows[j - 1].Compound)]

\* driver_laps['CompoundChange'].cumsum()
Stint(rows) ==
    LET change == CompoundChange(rows)
    IN  [j \in 1..Len(rows) |-> Cardinality({k \in 1..j : change[k]})]

\* str(compound).upper() for the labels of the model
Upper(c) ==
    CASE c = "soft" -> "SOFT"
      [] c = "medium" -> "MEDIUM"
      [] c = "hard" -> "HARD"
      [] OTHER -> c

\* compound_colors.get(label, '#808080')
StrategyColor(label) ==
    CASE label = "SOFT" -> "#FF0000"
      [] label = "MEDIUM" -> "#FFD700"
      [] label = "HARD" -> "#FFFFFF"
      [] label = "INTERMEDIATE" -> "#00FF00"
      [] label = "WET" -> "#0000FF"
      [] OTHER -> "#808080"

\* the trace drawn for one stint of the driver at position y of the list
StintTrace(driver, y, stint_data) ==
    LET first == stint_data[1].Compound
        compound == IF first = NoCompound THEN "UNKNOWN" ELSE first
    IN  [driver |-> driver,
         compound |-> compound,
         start_lap |-> stint_data[1].LapNumber,
         end_lap |-> stint_data[Len(stint_data)].LapNumber,
         y |-> y,
         color |-> StrategyColor(Upper(compound))]

\* the traces of one driver: one per value of Stint, in increasing order
DriverTraces(driver, y, driver_laps) ==
    LET stint == Stint(driver_laps)
        ids == {stint[j] : j \in 1..Len(driver_laps)}
        lowest == CHOOSE m \in ids : \A n \in ids : m <= n
        group(g) == MaskRows(driver_laps, [j \in 1..Len(driver_laps) |-> stint[j] = g])
    IN  [k \in 1..Cardinality(ids) |-> StintTrace(driver, y, group(lowest + k - 1))]

RECURSIVE StrategyTraces(_, _, _)
StrategyTraces(df, drvs, y) ==
    IF drvs = <<>> THEN <<>>
    ELSE LET driver_laps == SelectSeq(df.rows, LAMBDA r : r.Driver = Head(drvs))
         IN  IF driver_laps = <<>> \/ "Compound" \notin df.columns
             THEN StrategyTraces(df, Tail(drvs), y + 1)
             ELSE DriverTraces(Head(drvs), y, driver_laps)
                      \o StrategyTraces(df, Tail(drvs), y + 1)

create_tire_strategy_chart(df, drvs) ==
    IF drvs # <<>> /\ "Driver" \notin df.columns THEN Raise("KeyError")
    ELSE IF /\ "Compound" \in df.columns
            /\ "LapNumber" \notin df.columns
            /\ \E i \in 1..Len(drvs), j \in 1..Len(df.rows) : df.rows[j].Driver = drvs[i]
         THEN Raise("KeyError")
         ELSE Figure(StrategyTraces(df, drvs, 0))

----------------------------------------------------------------------------
(* create_tire_strategy_chart on the laps of two drivers *)

StintColumns == {"Driver", "LapNumber", "Compound"}

\* what a row of the lap table can be: a lap of VER on any compound or with
\* the compound absent, or a lap of HAM
StintCells ==
    {[Driver |-> "VER", Compound |-> c] : c \in {"SOFT", "MEDIUM", "HARD", NoCompound}}
        \cup {[Driver |-> "HAM", Compound |-> "SOFT"]}

\* row j of the table: its lap number is the driver's lap count so far
StintTable(cells) ==
    [j \in 1..Len(cells) |->
        [Driver |-> cells[j].Driver,
         Compound |-> cells[j].Compound,
         LapNumber |-> Cardinality({k \in 1..j : cells[k].Driver = cells[j].Driver})]]

InitStint ==
    /\ lap_times = <<>>
    /\ laps_df \in {[columns |-> StintColumns, rows |-> StintTable(c)] :
                       c \in SeqsUpTo(StintCells, MaxStintRows)}
    /\ telemetry_df = NoFrame
    /\ telemetry2 = NoFrame
    /\ drivers \in {<<"VER", "HAM">>, <<"HAM", "VER">>}
    /\ called = "none"
    /\ param = NaN
    /\ result = None
    /\ cache = NoCache
    /\ session_state = NoSessionState

\* the statements of create_tire_strategy_chart (lines 255-276), driver by
\* driver: driver_laps is a new table (pick_driver's selection on a fastf1 Laps
\* table, the copy of line 260 on a plain one), CompoundChange and Stint are
\* assigned on it, and groupby hands a table per stint.  A table without
\* LapNumber raises at the first stint.
RECURSIVE TireStrategyBody(_, _)
TireStrategyBody(df, drvs) ==
    IF drvs = <<>> \/ "Driver" \notin df.columns THEN <<>>
    ELSE LET of_driver == [i \in 1..Len(df.rows) |-> df.rows[i].Driver = Head(drvs)]
             driver_laps == MaskRows(df.rows, of_driver)
             stint == Stint(driver_laps)
             picked == <<Filter("driver_laps", "laps_df", of_driver)>>
             assigned == <<Assign("driver_laps", "CompoundChange",
                                  CompoundChange(driver_laps)),
                           Assign("driver_laps", "Stint", stint)>>
             groups == [g \in 1..stint[Len(driver_laps)] |->
                           Filter("stint_data", "driver_laps",
                                  [j \in 1..Len(driver_laps) |-> stint[j] = g])]
         IN  IF driver_laps = <<>> \/ "Compound" \notin df.columns
             THEN picked \o TireStrategyBody(df, Tail(drvs))
             ELSE IF "LapNumber" \notin df.columns
                  THEN picked \o assigned \o <<groups[1]>>
                  ELSE picked \o assigned \o groups \o TireStrategyBody(df, Tail(drvs))

CallTireStrategyChart ==
    /\ called' = "create_tire_strategy_chart"
    /\ param' = NaN
    /\ result' = create_tire_strategy_chart(laps_df, drivers)
    /\ laps_df' = ArgAfter(<<"laps_df", "drivers">>, <<laps_df, drivers>>,
                           TireStrategyBody(laps_df, drivers), 1)
    /\ UNCHANGED <<lap_times, telemetry_df, telemetry2, drivers, cache, session_state>>

NextStint == CallTireStrategyChart

SpecStint == InitStint /\ [][NextStint]_vars

----------------------------------------------------------------------------
(* The table functions on tables that lack some of their columns *)

LapColumnsAll == {"LapNumber", "LapTime", "Position", "Compound"}

\* a lap after the excluded first laps, led by its driver
FullLap == [LapNumber |-> 4, LapTime |-> Flt(90), Position |-> Flt(1), Compound |-> "SOFT"]

\* a sample with the brake applied
FullSample == [Distance |-> Flt(100), Speed |-> Flt(280), Brake |-> Flt(100)]

InitColumns ==
    /\ lap_times = <<>>
    /\ laps_df \in {[columns |-> cols, rows |-> [i \in 1..n |-> Restrict(FullLap, cols)]] :
                       cols \in SUBSET LapColumnsAll, n \in 0..MaxColRows}
    /\ telemetry_df \in {[columns |-> cols,
                          rows |-> [i \in 1..n |-> Restrict(FullSample, cols)]] :
                            cols \in SUBSET BrakeColumns, n \in 0..MaxColRows}
    /\ telemetry2 = NoFrame
    /\ drivers = <<>>
    /\ called = "none"
    /\ param = NaN
    /\ result = None
    /\ cache = NoCache
    /\ session_state = NoSessionState

NextColumns == CallRacePace \/ CallBrakePoints \/ CallGapToLeader

SpecColumns == InitColumns /\ [][NextColumns]_vars

----------------------------------------------------------------------------
(* Claims about the series functions, checked under SpecSeries *)

\* positions of the present (non-absent) values of the input series
PresentIdx == {i \in 1..Len(lap_times) : ~lap_times[i].na}

PaceFields == {"mean", "std", "coefficient_of_variation", "fastest", "slowest"}

RECURSIVE IntSumOver(_, _)
IntSumOver(I, s) ==
    IF I = {} THEN 0
    ELSE LET i == CHOOSE j \in I : TRUE IN s[i].num + IntSumOver(I \ {i}, s)

\* C1: with fewer than 2 present values calculate_pace_consistency returns a
\* dictionary holding all five fields, each of them NaN; it neither raises nor
\* returns an empty result.
C1_PaceUndefinedBelowTwo ==
    (called = "calculate_pace_consistency" /\ Cardinality(PresentIdx) < 2) =>
        /\ result.kind = "dict"
        /\ DOMAIN result.value = PaceFields
        /\ \A f \in PaceFields : result.value[f].na

\* a series with one present value among absent ones has been analysed
C1_Witness ==
    /\ called = "calculate_pace_consistency"
    /\ Cardinality(PresentIdx) = 1
    /\ Len(lap_times) >= 3
    /\ result.kind = "dict"
    /\ result.value.mean.na

\* C2: with at least 2 present values fastest is their minimum, slowest their
\* maximum, mean their arithmetic mean (so fastest <= mean <= slowest), std is
\* defined and >= 0, coefficient_of_variation = std / mean * 100, and the
\* absent values of the input change none of the fields.
C2_PaceStatistics ==
    (called = "calculate_pace_consistency" /\ Cardinality(PresentIdx) >= 2) =>
        /\ result.kind = "dict"
        /\ DOMAIN result.value = PaceFields
        /\ LET r == result.value
               n == Cardinality(PresentIdx)
           IN  /\ \E i \in PresentIdx : r.fastest = lap_times[i]
               /\ \A i \in PresentIdx : FLe(r.fastest, lap_times[i])
               /\ \E i \in PresentIdx : r.slowest = lap_times[i]
               /\ \A i \in PresentIdx : FLe(lap_times[i], r.slowest)
               /\ ~r.mean.na
               /\ r.mean.num * n = IntSumOver(PresentIdx, lap_times) * r.mean.den
               /\ FLe(r.fastest, r.mean) /\ FLe(r.mean, r.slowest)
               /\ ~r.std.na /\ r.std.k >= 0 /\ r.std.num >= 0 /\ r.std.den > 0
               /\ (r.std.num = 0 <=> r.fastest = r.slowest)
               /\ r.coefficient_of_variation = RootScale(RootDiv(r.std, r.mean), 100)
               /\ result = calculate_pace_consistency(dropna(lap_times))

\* the series 90, 91, 89 (with or without absent values) gives mean 90,
\* fastest 89, slowest 91
C2_Witness ==
    /\ called = "calculate_pace_consistency"
    /\ dropna(lap_times) = <<Flt(90), Flt(91), Flt(89)>>
    /\ Len(lap_times) = 4
    /\ result.kind = "dict"
    /\ result.value.mean = Flt(90)
    /\ result.value.fastest = Flt(89)
    /\ result.value.slowest = Flt(91)
    /\ result.value.std = [na |-> FALSE, k |-> 1, num |-> 1, den |-> 1]

\* C10: identify_outliers returns one boolean per input position, TRUE exactly
\* for the values strictly below Q1 - threshold * IQR or strictly above
\* Q3 + threshold * IQR, Q1 and Q3 being the quartiles of the input; on
\* 90, 91, 89, 150 with threshold 1.5 only the last position is flagged.
C10_OutliersIQR ==
    called = "identify_outliers" =>
        /\ result.kind = "series"
        /\ DOMAIN result.value = 1..Len(lap_times)
        /\ LET q1 == Quantile(lap_times, 1, 4)
               q3 == Quantile(lap_times, 3, 4)
               iqr == FSub(q3, q1)
               lo == FSub(q1, FMul(param, iqr))
               hi == FAdd(q3, FMul(param, iqr))
           IN  /\ \A i \in 1..Len(lap_times) :
                      result.value[i] <=> (FLt(lap_times[i], lo) \/ FGt(lap_times[i], hi))
               /\ PresentIdx # {} =>
                      /\ FLe(q1, q3)
                      /\ \A i \in PresentIdx : result.value[i] =>
                             (FLt(lap_times[i], q1) \/ FGt(lap_times[i], q3))
                      /\ \A i \in PresentIdx :
                             (FLe(q1, lap_times[i]) /\ FLe(lap_times[i], q3))
                                 => ~result.value[i]
        /\ (lap_times = <<Flt(90), Flt(91), Flt(89), Flt(150)>> /\ param = DefaultThreshold)
               => result.value = <<FALSE, FALSE, FALSE, TRUE>>

\* the series 90, 91, 89, 150 has been screened with threshold 1.5 and its
\* last value flagged
C10_Witness ==
    /\ called = "identify_outliers"
    /\ param = DefaultThreshold
    /\ lap_times = <<Flt(90), Flt(91), Flt(89), Flt(150)>>
    /\ result.value[4]
    /\ Quantile(lap_times, 1, 4) = Rat(359, 4)
    /\ Quantile(lap_times, 3, 4) = Rat(423, 4)

----------------------------------------------------------------------------
(* Claims about calculate_gap_to_leader, checked under SpecGap *)

GapInputLaps == {laps_df.rows[i].LapNumber : i \in 1..Len(laps_df.rows)}

\* the lap numbers of the input that have a row with position 1
LapsWithLeader ==
    {n \in GapInputLaps :
        \E i \in 1..Len(laps_df.rows) :
            laps_df.rows[i].LapNumber = n /\ laps_df.rows[i].Position = Flt(1)}

\* the rows of the result for one lap number (none when the call raised or
\* returned the empty table)
GapResultRows(n) ==
    IF result.kind = "frame"
    THEN SelectSeq(result.value.rows, LAMBDA r : r.LapNumber = n)
    ELSE <<>>

\* C3: a lap number without a position-1 row does not make the call fail and
\* contributes no rows, while every other lap number of the input is still
\* processed (the laps led by a driver with a lap time appear in the result).
C3_LeaderlessLapSkipped ==
    called = "calculate_gap_to_leader" =>
        /\ result.kind = "frame"
        /\ \A n \in GapInputLaps \ LapsWithLeader : GapResultRows(n) = <<>>
        /\ \A n \in LapsWithLeader :
               (\E i \in 1..Len(laps_df.rows) :
                    /\ laps_df.rows[i].LapNumber = n
                    /\ laps_df.rows[i].Position = Flt(1)
                    /\ ~laps_df.rows[i].LapTime.na)
               => Len(GapResultRows(n)) =
                      Cardinality({i \in 1..Len(laps_df.rows) : laps_df.rows[i].LapNumber = n})

\* C4: on every lap number that has a position-1 row the result holds, for
\* each driver of that lap, a row whose gap is the driver's lap time minus the
\* leader's lap time of the same lap, and the leader's own gap is exactly 0.
C4_GapIsOwnMinusLeader ==
    called = "calculate_gap_to_leader" =>
        \A n \in LapsWithLeader :
            \A i \in 1..Len(laps_df.rows) :
                laps_df.rows[i].LapNumber = n =>
                    \E k \in 1..Len(GapResultRows(n)) :
                        LET row == GapResultRows(n)[k]
                        IN  /\ row.Driver = laps_df.rows[i].Driver
                            /\ row.Position = Flt(1) => row.GapToLeader = Flt(0)
                            /\ \E j \in 1..Len(laps_df.rows) :
                                   /\ laps_df.rows[j].LapNumber = n
                                   /\ laps_df.rows[j].Position = Flt(1)
                                   /\ row.GapToLeader =
                                          FSub(laps_df.rows[i].LapTime, laps_df.rows[j].LapTime)

----------------------------------------------------------------------------
(* Claims about calculate_brake_points, checked under SpecBrake *)

\* sample i of the input is above the threshold of the call
High(i) == FGt(telemetry_df.rows[i].Brake, param)

SampleIdx == 1..Len(telemetry_df.rows)

\* positions where a maximal run of above-threshold samples begins / ends
RunStarts == {i \in SampleIdx : High(i) /\ (i = 1 \/ ~High(i - 1))}
RunEnds == {i \in SampleIdx : High(i) /\ (i = Len(telemetry_df.rows) \/ ~High(i + 1))}

\* C6: calculate_brake_points returns, in order, exactly the samples whose
\* brake value exceeds the threshold while the preceding sample's does not
\* (the first sample counting as preceded by a non-braking one); there are as
\* many points as maximal runs of above-threshold samples, and a constant-high
\* signal of length N >= 1 gives exactly one point, its first sample.
C6_BrakeRisingEdges ==
    called = "calculate_brake_points" =>
        /\ result.kind = "frame"
        /\ result.value.columns = BrakeColumns
        /\ LET out == result.value.rows
           IN  /\ \A k \in 1..Len(out) :
                      \E i \in RunStarts : out[k] = Restrict(telemetry_df.rows[i], BrakeColumns)
               /\ \A i \in RunStarts :
                      \E k \in 1..Len(out) : out[k] = Restrict(telemetry_df.rows[i], BrakeColumns)
               /\ \A k \in 1..(Len(out) - 1) : FLt(out[k].Distance, out[k + 1].Distance)
               /\ Len(out) = Cardinality(RunEnds)
               /\ (SampleIdx # {} /\ \A i \in SampleIdx : High(i)) =>
                      out = <<Restrict(telemetry_df.rows[1], BrakeColumns)>>

\* a constant-high signal of 4 samples gave exactly one point, its first sample
C6_Witness ==
    /\ called = "calculate_brake_points"
    /\ Len(telemetry_df.rows) = 4
    /\ \A i \in SampleIdx : High(i)
    /\ result.kind = "frame"
    /\ Len(result.value.rows) = 1
    /\ result.value.rows[1].Distance = Flt(100)

----------------------------------------------------------------------------
(* Claims about calculate_race_pace, checked under SpecRacePace *)

RECURSIVE IntSumSqOver(_, _)
IntSumSqOver(I, s) ==
    IF I = {} THEN 0
    ELSE LET i == CHOOSE j \in I : TRUE IN s[i].num * s[i].num + IntSumSqOver(I \ {i}, s)

PaceIdx == 1..Len(laps_df.rows)

PaceTimes == Column(laps_df.rows, "LapTime")

\* the laps that remain after the first laps are excluded
Remaining == {i \in PaceIdx : laps_df.rows[i].LapNumber > param.num}

\* the lap times of all remaining laps, of every compound together
RemainingTimes ==
    Column(SelectSeq(laps_df.rows, LAMBDA r : r.LapNumber > param.num), "LapTime")

\* the bounds of the one outlier filter: Q1 - 1.5 * IQR and Q3 + 1.5 * IQR of
\* the remaining lap times
GlobalBounds ==
    LET q1 == Quantile(RemainingTimes, 1, 4)
        q3 == Quantile(RemainingTimes, 3, 4)
        w == FMul(Rat(3, 2), FSub(q3, q1))
    IN  [lower |-> FSub(q1, w), upper |-> FAdd(q3, w)]

\* for each compound, the remaining laps that the one outlier filter keeps
Survivors ==
    LET b == GlobalBounds
    IN  [c \in PaceCompounds |->
            {i \in Remaining :
                /\ laps_df.rows[i].Compound = c
                /\ ~(FLt(PaceTimes[i], b.lower) \/ FGt(PaceTimes[i], b.upper))}]

\* C9: the result of calculate_race_pace is that of the pipeline exclude ->
\* outlier filter -> group: laps with lap_number <= exclude_first_laps reach no
\* row and no quartile, the outlier bounds come from the lap times of all
\* remaining laps together, and the laps that survive are grouped by compound
\* into count, mean, std and fastest, one row per compound in key order.
C9_RacePacePipeline ==
    called = "calculate_race_pace" =>
        /\ result.kind = "frame"
        /\ result.value.columns = PaceColumns
        /\ LET out == result.value.rows
               surv == Survivors
               timed == [c \in PaceCompounds |-> {i \in surv[c] : ~PaceTimes[i].na}]
           IN  /\ \A k \in 1..Len(out) :
                      out[k].Compound \in PaceCompounds /\ surv[out[k].Compound] # {}
               /\ \A k \in 1..(Len(out) - 1) :
                      out[k].Compound = "MEDIUM" /\ out[k + 1].Compound = "SOFT"
               /\ \A c \in PaceCompounds : surv[c] # {} =>
                      \E k \in 1..Len(out) :
                          LET row == out[k]
                              n == Cardinality(timed[c])
                              sum == IntSumOver(timed[c], PaceTimes)
                              sumsq == IntSumSqOver(timed[c], PaceTimes)
                          IN  /\ row.Compound = c
                              /\ row.LapCount = n
                              /\ n = 0 => row.AvgLapTime.na /\ row.FastestLap.na
                              /\ n > 0 =>
                                     /\ ~row.AvgLapTime.na
                                     /\ row.AvgLapTime.num * n = sum * row.AvgLapTime.den
                                     /\ \E i \in timed[c] : row.FastestLap = PaceTimes[i]
                                     /\ \A i \in timed[c] : FLe(row.FastestLap, PaceTimes[i])
                              /\ n < 2 => row.StdDev.na
                              /\ n >= 2 =>
                                     /\ ~row.StdDev.na /\ row.StdDev.k = 1
                                     /\ row.StdDev.num * n * (n - 1) =
                                            (n * sumsq - sum * sum) * row.StdDev.den

\* a race whose first lap is excluded and whose only MEDIUM lap is an outlier
\* of the whole field but not of its own compound: the result has no MEDIUM
\* row, while filtering per compound would have kept one
C9_Witness ==
    /\ called = "calculate_race_pace"
    /\ param = Flt(1)
    /\ Len(laps_df.rows) = 5
    /\ \A i \in 2..4 : laps_df.rows[i] = PaceLap(i, [Compound |-> "SOFT", LapTime |-> Flt(90)])
    /\ laps_df.rows[5] = PaceLap(5, [Compound |-> "MEDIUM", LapTime |-> Flt(100)])
    /\ result.kind = "frame"
    /\ Len(result.value.rows) = 1
    /\ result.value.rows[1].Compound = "SOFT"
    /\ result.value.rows[1].LapCount = 3
    /\ result # Mut_race_pace_per_compound(laps_df, 1)
    /\ Len(Mut_race_pace_per_compound(laps_df, 1).value.rows) = 2

----------------------------------------------------------------------------
(* Claims about stint segmentation, checked under SpecStint *)

StintDrivers == {"VER", "HAM"}

\* the spans emitted for a driver, in the order of the figure's traces
SpansOf(d) ==
    IF result.kind = "figure" THEN SelectSeq(result.value, LAMBDA t : t.driver = d)
    ELSE <<>>

\* the driver's laps in input order
LapsOf(d) == SelectSeq(laps_df.rows, LAMBDA r : r.Driver = d)

\* the label a compound is drawn with
Normalized(c) == IF c = NoCompound THEN "UNKNOWN" ELSE c

SpanOf(t) == <<t.compound, t.start_lap, t.end_lap>>

\* C7: for each driver the spans are in lap order, each runs from the first to
\* the last lap number of a run of consecutive laps on one compound, together
\* they cover every lap of the driver exactly once, and each run is maximal:
\* no two adjacent spans of a driver carry the same compound, whatever the
\* compounds are.  Compounds S,S,M,M,M,H on laps 1..6 give exactly (S,1,2),
\* (M,3,5), (H,6,6).
C7_StintSpans ==
    called = "create_tire_strategy_chart" =>
        /\ result.kind = "figure"
        /\ \A d \in StintDrivers :
               LET spans == SpansOf(d)
                   laps == LapsOf(d)
                   n == Len(spans)
               IN  /\ laps = <<>> => spans = <<>>
                   /\ laps # <<>> =>
                          /\ n >= 1
                          /\ spans[1].start_lap = laps[1].LapNumber
                          /\ spans[n].end_lap = laps[Len(laps)].LapNumber
                   /\ \A k \in 1..n : spans[k].start_lap <= spans[k].end_lap
                   /\ \A k \in 1..(n - 1) : spans[k + 1].start_lap = spans[k].end_lap + 1
                   /\ \A j \in 1..Len(laps) :
                          Cardinality({k \in 1..n :
                              /\ spans[k].start_lap <= laps[j].LapNumber
                              /\ laps[j].LapNumber <= spans[k].end_lap
                              /\ spans[k].compound = Normalized(laps[j].Compound)}) = 1
                   /\ \A k \in 1..(n - 1) : spans[k].compound # spans[k + 1].compound
                   /\ [j \in 1..Len(laps) |-> laps[j].Compound]
                          = <<"SOFT", "SOFT", "MEDIUM", "MEDIUM", "MEDIUM", "HARD">>
                      => [k \in 1..n |-> SpanOf(spans[k])]
                          = << <<"SOFT", 1, 2>>, <<"MEDIUM", 3, 5>>, <<"HARD", 6, 6>> >>

\* C8: an absent compound is drawn as UNKNOWN, and no two adjacent spans of a
\* driver carry the same label: k consecutive laps with absent compound make
\* one UNKNOWN span.
C8_NoAdjacentEqualSpans ==
    called = "create_tire_strategy_chart" =>
        \A d \in StintDrivers :
            LET spans == SpansOf(d)
            IN  /\ \A k \in 1..Len(spans) : spans[k].compound # NoCompound
                /\ \A k \in 1..(Len(spans) - 1) : spans[k].compound # spans[k + 1].compound

----------------------------------------------------------------------------
(* Claim about missing columns, checked under SpecColumns *)

\* the columns each function reads from its table
ColumnsRead ==
    [calculate_race_pace |-> {"LapNumber", "LapTime", "Compound"},
     calculate_brake_points |-> {"Brake", "Distance", "Speed"},
     calculate_gap_to_leader |-> {"LapTime", "Position", "LapNumber"}]

\* the table the last call was given
TableGiven == IF called = "calculate_brake_points" THEN telemetry_df ELSE laps_df

\* C5: a function given a table that lacks a column it reads returns an empty
\* result and does not raise.
C5_MissingColumnGivesEmpty ==
    (called \in DOMAIN ColumnsRead /\ ~(ColumnsRead[called] \subseteq TableGiven.columns)) =>
        /\ result.kind # "raise"
        /\ result.kind = "frame"
        /\ result.value.rows = <<>>

----------------------------------------------------------------------------
(* Threshold monotonicity of identify_outliers, checked under SpecSeries *)

\* the positions a mask flags
Flagged(mask) == {i \in DOMAIN mask : mask[i]}

\* C11: for a fixed input and thresholds 0 <= t1 <= t2 the positions flagged
\* with t2 are among those flagged with t1 (t1 is the threshold of the call
\* made, t2 any larger threshold, t0 any smaller one).
C11_ThresholdMonotonic ==
    called = "identify_outliers" =>
        /\ \A t2 \in Thresholds : FLe(param, t2) =>
               Flagged(identify_outliers(lap_times, t2)) \subseteq Flagged(result.value)
        /\ \A t0 \in Thresholds : FLe(t0, param) =>
               Flagged(result.value) \subseteq Flagged(identify_outliers(lap_times, t0))

\* a series screened with threshold 1 whose flagged set lies strictly between
\* that of threshold 0 and that of threshold 3
C11_Witness ==
    /\ called = "identify_outliers"
    /\ param = Flt(1)
    /\ Flagged(result.value) # {}
    /\ Flagged(result.value) # Flagged(identify_outliers(lap_times, Flt(0)))
    /\ Flagged(identify_outliers(lap_times, Flt(3))) # Flagged(result.value)

----------------------------------------------------------------------------
(* calculate_overtakes *)

OvertakeColumns == {"LapNumber", "FromPosition", "ToPosition", "PositionsGained"}

\* the loop over range(1, len(position_data)): the entries appended from row i on
RECURSIVE OvertakeLoop(_, _)
OvertakeLoop(rows, i) ==
    IF i > Len(rows) THEN <<>>
    ELSE LET prev_pos == rows[i - 1].Position
             curr_pos == rows[i].Position
         IN  IF FGt(prev_pos, curr_pos)
             THEN <<[LapNumber |-> rows[i].LapNumber,
                     FromPosition |-> prev_pos,
                     ToPosition |-> curr_pos,
                     PositionsGained |-> FSub(prev_pos, curr_pos)]>>
                      \o OvertakeLoop(rows, i + 1)
             ELSE OvertakeLoop(rows, i + 1)

\* rows ordered by lap number (insertion sort), used by the mutant only
RECURSIVE InsertByLap(_, _)
InsertByLap(r, rows) ==
    IF rows = <<>> THEN <<r>>
    ELSE IF r.LapNumber < Head(rows).LapNumber THEN <<r>> \o rows
         ELSE <<Head(rows)>> \o InsertByLap(r, Tail(rows))

RECURSIVE SortByLap(_)
SortByLap(rows) ==
    IF rows = <<>> THEN <<>> ELSE InsertByLap(Head(rows), SortByLap(Tail(rows)))

\* mutant: the rows are sorted by lap number before the walk
Mut_overtakes_sorts_first(df) ==
    IF "Position" \notin df.columns \/ "LapNumber" \notin df.columns THEN EmptyFrame
    ELSE LET overtakes == OvertakeLoop(SortByLap(df.rows), 2)
         IN  IF overtakes = <<>> THEN EmptyFrame ELSE Frame(OvertakeColumns, overtakes)

\* pd.DataFrame(overtakes) of an empty list has no columns
calculate_overtakes(df) ==
    IF "Position" \notin df.columns \/ "LapNumber" \notin df.columns THEN EmptyFrame
    ELSE LET overtakes == OvertakeLoop(df.rows, 2)
         IN  IF overtakes = <<>> THEN EmptyFrame ELSE Frame(OvertakeColumns, overtakes)

----------------------------------------------------------------------------
(* calculate_overtakes on one driver's positions *)

OvertakePositions == {Flt(3), Flt(4), Flt(5), NaN}

\* the rows come in lap order or in reverse lap order
OvertakeOrders == {"ascending", "descending"}

PositionTable(pos, order) ==
    [i \in 1..Len(pos) |->
        [LapNumber |-> IF order = "ascending" THEN i ELSE Len(pos) + 1 - i,
         Position |-> pos[i]]]

InitOvertakes ==
    /\ lap_times = <<>>
    /\ laps_df \in {[columns |-> {"LapNumber", "Position"}, rows |-> PositionTable(pos, o)] :
                       pos \in SeqsUpTo(OvertakePositions, MaxOvertakeRows),
                       o \in OvertakeOrders}
    /\ telemetry_df = NoFrame
    /\ telemetry2 = NoFrame
    /\ drivers = <<>>
    /\ called = "none"
    /\ param = NaN
    /\ result = None
    /\ cache = NoCache
    /\ session_state = NoSessionState

\* the statements of calculate_overtakes: the rows are read one by one and
\* pd.DataFrame(overtakes) builds the table it returns (line 285)
OvertakesBody(df) ==
    IF "Position" \notin df.columns \/ "LapNumber" \notin df.columns THEN <<>>
    ELSE <<Make("return", calculate_overtakes(df).value)>>

CallOvertakes ==
    /\ called' = "calculate_overtakes"
    /\ param' = NaN
    /\ result' = calculate_overtakes(laps_df)
    /\ laps_df' = ArgAfter(<<"position_data">>, <<laps_df>>, OvertakesBody(laps_df), 1)
    /\ UNCHANGED <<lap_times, telemetry_df, telemetry2, drivers, cache, session_state>>

NextOvertakes == CallOvertakes

SpecOvertakes == InitOvertakes /\ [][NextOvertakes]_vars

\* the rows (from the second on) whose position is lower than the row before
Gains ==
    {i \in 2..Len(laps_df.rows) :
        FLt(laps_df.rows[i].Position, laps_df.rows[i - 1].Position)}

\* C12: calculate_overtakes emits, in input order, one entry for each pair of
\* consecutive rows whose later position is numerically lower, and none for any
\* other pair; the entry has the later row's LapNumber, the two positions and
\* PositionsGained = from - to > 0.  Positions 5,5,3,3,4 give the one entry
\* 5 -> 3, gained 2.
C12_Overtakes ==
    called = "calculate_overtakes" =>
        /\ result.kind = "frame"
        /\ LET out == result.value.rows
               rows == laps_df.rows
           IN  /\ Len(out) = Cardinality(Gains)
               /\ \A k \in 1..Len(out) :
                      \E i \in Gains :
                          /\ Cardinality({j \in Gains : j <= i}) = k
                          /\ out[k].LapNumber = rows[i].LapNumber
                          /\ out[k].FromPosition = rows[i - 1].Position
                          /\ out[k].ToPosition = rows[i].Position
                          /\ out[k].PositionsGained =
                                 Flt(rows[i - 1].Position.num - rows[i].Position.num)
                          /\ out[k].PositionsGained.num > 0
               /\ [i \in 1..Len(rows) |-> rows[i].Position]
                      = <<Flt(5), Flt(5), Flt(3), Flt(3), Flt(4)>>
                  => /\ Len(out) = 1
                     /\ out[1].FromPosition = Flt(5) /\ out[1].ToPosition = Flt(3)
                     /\ out[1].PositionsGained = Flt(2)
                     /\ out[1].LapNumber = rows[3].LapNumber

\* the positions 5,5,3,3,4, given in reverse lap order, gave the one entry
\* 5 -> 3 with the lap number of the third row
C12_Witness ==
    /\ called = "calculate_overtakes"
    /\ [i \in 1..Len(laps_df.rows) |-> laps_df.rows[i].Position]
           = <<Flt(5), Flt(5), Flt(3), Flt(3), Flt(4)>>
    /\ laps_df.rows[1].LapNumber = 5
    /\ result.kind = "frame"
    /\ Len(result.value.rows) = 1
    /\ result.value.rows[1].LapNumber = 3
    /\ result.value.rows[1].PositionsGained = Flt(2)

----------------------------------------------------------------------------
(* calculate_pit_stop_delta *)

PitColumns == {"LapNumber", "Compound", "PitDuration", "TyreLife"}

\* laps_df[laps_df['PitInTime'].notna()].copy()
PitLaps(df) == SelectSeq(df.rows, LAMBDA r : ~isna(r.PitInTime))

\* pit_laps['PitDuration'] = (PitOutTime - PitInTime).dt.total_seconds()
PitDuration(r) == FSub(r.PitOutTime, r.PitInTime)

\* mutant: the selection asks for both times
Mut_pit_requires_both(df) ==
    IF "PitInTime" \notin df.columns \/ "PitOutTime" \notin df.columns THEN EmptyFrame
    ELSE LET pit_laps == SelectSeq(df.rows,
                             LAMBDA r : ~isna(r.PitInTime) /\ ~isna(r.PitOutTime))
         IN  IF pit_laps = <<>> THEN EmptyFrame
             ELSE IF ~({"LapNumber", "Compound", "TyreLife"} \subseteq df.columns)
                  THEN Raise("KeyError")
                  ELSE Frame(PitColumns,
                             [i \in 1..Len(pit_laps) |->
                                 Restrict(WithColumn(pit_laps[i], "PitDuration",
                                                     PitDuration(pit_laps[i])),
                                          PitColumns)])

calculate_pit_stop_delta(df) ==
    IF "PitInTime" \notin df.columns \/ "PitOutTime" \notin df.columns THEN EmptyFrame
    ELSE LET pit_laps == PitLaps(df)
         IN  IF pit_laps = <<>> THEN EmptyFrame
             ELSE IF ~({"LapNumber", "Compound", "TyreLife"} \subseteq df.columns)
                  THEN Raise("KeyError")
                  ELSE Frame(PitColumns,
                             [i \in 1..Len(pit_laps) |->
                                 Restrict(WithColumn(pit_laps[i], "PitDuration",
                                                     PitDuration(pit_laps[i])),
                                          PitColumns)])

----------------------------------------------------------------------------
(* calculate_pit_stop_delta on one driver's laps *)

PitInTimes == {Flt(100), Flt(200), NaN}
PitOutTimes == {Flt(120), Flt(225), NaN}
PitInputColumns == {"LapNumber", "Compound", "TyreLife", "PitInTime", "PitOutTime"}

PitTable(cells) ==
    [i \in 1..Len(cells) |->
        [LapNumber |-> i, Compound |-> "SOFT", TyreLife |-> Flt(i),
         PitInTime |-> cells[i][1], PitOutTime |-> cells[i][2]]]

InitPit ==
    /\ lap_times = <<>>
    /\ laps_df \in {[columns |-> PitInputColumns, rows |-> PitTable(cells)] :
                       cells \in SeqsUpTo(PitInTimes \X PitOutTimes, MaxPitRows)}
    /\ telemetry_df = NoFrame
    /\ telemetry2 = NoFrame
    /\ drivers = <<>>
    /\ called = "none"
    /\ param = NaN
    /\ result = None
    /\ cache = NoCache
    /\ session_state = NoSessionState

\* the statements of calculate_pit_stop_delta (lines 216-223): pit_laps is a
\* copy of the rows with a pit-in time, PitDuration is assigned on it, and the
\* four columns taken of it are returned
PitStopBody(df) ==
    IF "PitInTime" \notin df.columns \/ "PitOutTime" \notin df.columns THEN <<>>
    ELSE LET pit_laps == PitLaps(df)
         IN  <<Filter("pit_laps", "laps_df",
                      [i \in 1..Len(df.rows) |-> ~isna(df.rows[i].PitInTime)])>>
             \o (IF pit_laps = <<>> THEN <<>>
                 ELSE <<Assign("pit_laps", "PitDuration",
                               [i \in 1..Len(pit_laps) |-> PitDuration(pit_laps[i])])>>
                      \o (IF {"LapNumber", "Compound", "TyreLife"} \subseteq df.columns
                          THEN <<Select("return", "pit_laps", PitColumns)>>
                          ELSE <<>>))

CallPitStopDelta ==
    /\ called' = "calculate_pit_stop_delta"
    /\ param' = NaN
    /\ result' = calculate_pit_stop_delta(laps_df)
    /\ laps_df' = ArgAfter(<<"laps_df">>, <<laps_df>>, PitStopBody(laps_df), 1)
    /\ UNCHANGED <<lap_times, telemetry_df, telemetry2, drivers, cache, session_state>>

NextPit == CallPitStopDelta

SpecPit == InitPit /\ [][NextPit]_vars

\* the laps with both pit times present, in input order
BothPitTimes == SelectSeq(laps_df.rows, LAMBDA r : ~isna(r.PitInTime) /\ ~isna(r.PitOutTime))

\* C13: calculate_pit_stop_delta returns a row exactly for the laps with both
\* PitInTime and PitOutTime present, with PitDuration = PitOutTime - PitInTime in
\* seconds; a lap with only one of the two does not appear.
C13_PitRowsHaveBothTimes ==
    called = "calculate_pit_stop_delta" =>
        /\ result.kind = "frame"
        /\ Len(result.value.rows) = Len(BothPitTimes)
        /\ \A k \in 1..Len(BothPitTimes) :
               /\ result.value.rows[k].LapNumber = BothPitTimes[k].LapNumber
               /\ result.value.rows[k].PitDuration =
                      Flt(BothPitTimes[k].PitOutTime.num - BothPitTimes[k].PitInTime.num)

----------------------------------------------------------------------------
(* calculate_tire_degradation *)

DegradationColumns == {"TyreLife", "AvgLapTime", "FastestLapTime", "LapCount"}

\* the aggregates 'mean', 'min', 'count' of LapTime over the laps of tyre life t
DegradationRow(rows, t) ==
    LET times == Column(SelectSeq(rows, LAMBDA r : r.TyreLife = t), "LapTime")
    IN  [TyreLife |-> t,
         AvgLapTime |-> SeriesMean(times),
         FastestLapTime |-> SeriesMin(times),
         LapCount |-> Len(dropna(times))]

\* the group keys of groupby('TyreLife'): the present values, each once, sorted
TyreLifeKeys(rows) == SortedValues(Unique(dropna(Column(rows, "TyreLife")), {}))

\* mutant: LapCount is the size of the group, absent lap times included
Mut_degradation_counts_rows(df) ==
    IF "TyreLife" \notin df.columns \/ "LapTime" \notin df.columns THEN EmptyFrame
    ELSE LET keys == TyreLifeKeys(df.rows)
         IN  Frame(DegradationColumns,
                   [k \in 1..Len(keys) |->
                       [DegradationRow(df.rows, keys[k]) EXCEPT
                           !.LapCount = Len(SelectSeq(df.rows,
                                                LAMBDA r : r.TyreLife = keys[k]))]])

calculate_tire_degradation(df) ==
    IF "TyreLife" \notin df.columns \/ "LapTime" \notin df.columns THEN EmptyFrame
    ELSE LET keys == TyreLifeKeys(df.rows)
         IN  Frame(DegradationColumns,
                   [k \in 1..Len(keys) |-> DegradationRow(df.rows, keys[k])])

\* the labels groupby().agg().reset_index() gives the columns, and the ones
\* line 75 assigns in their place
DegradationLabels ==
    [x \in {"TyreLife", "LapTime.mean", "LapTime.min", "LapTime.count"} |->
        CASE x = "TyreLife" -> "TyreLife"
          [] x = "LapTime.mean" -> "AvgLapTime"
          [] x = "LapTime.min" -> "FastestLapTime"
          [] x = "LapTime.count" -> "LapCount"]

\* the statements of calculate_tire_degradation (lines 71-75): the aggregated
\* table is new, and its columns are relabelled in place
TireDegradationBody(df) ==
    IF "TyreLife" \notin df.columns \/ "LapTime" \notin df.columns THEN <<>>
    ELSE <<Make("degradation",
                Relabel(calculate_tire_degradation(df).value, Before(DegradationLabels))),
           SetColumns("degradation", DegradationLabels)>>

CallTireDegradation ==
    /\ called' = "calculate_tire_degradation"
    /\ param' = NaN
    /\ result' = calculate_tire_degradation(laps_df)
    /\ laps_df' = ArgAfter(<<"laps_df">>, <<laps_df>>, TireDegradationBody(laps_df), 1)
    /\ UNCHANGED <<lap_times, telemetry_df, telemetry2, drivers, cache, session_state>>

----------------------------------------------------------------------------
(* the three pace statistics on one lap table *)

StatTyreLives == {Flt(1), Flt(2)}
StatColumns == {"LapNumber", "Compound", "TyreLife", "LapTime"}
StatCells == [Compound : PaceCompounds, TyreLife : StatTyreLives, LapTime : PaceLapTimes]

StatLap(i, cell) ==
    [LapNumber |-> i, Compound |-> cell.Compound, TyreLife |-> cell.TyreLife,
     LapTime |-> cell.LapTime]

StatTables ==
    {[columns |-> StatColumns, rows |-> [i \in 1..Len(c) |-> StatLap(i, c[i])]] :
        c \in SeqsUpTo(StatCells, MaxStatRows)}

\* the series given to calculate_pace_consistency is the table's LapTime column
InitLapStats ==
    /\ laps_df \in StatTables
    /\ lap_times = Column(laps_df.rows, "LapTime")
    /\ telemetry_df = NoFrame
    /\ telemetry2 = NoFrame
    /\ drivers = <<>>
    /\ called = "none"
    /\ param = NaN
    /\ result = None
    /\ cache = NoCache
    /\ session_state = NoSessionState

NextLapStats == CallPaceConsistency \/ CallRacePace \/ CallTireDegradation

SpecLapStats == InitLapStats /\ [][NextLapStats]_vars

\* the table without its laps of absent lap time
WithoutAbsent(df) ==
    [columns |-> df.columns, rows |-> SelectSeq(df.rows, LAMBDA r : ~isna(r.LapTime))]

\* C14: laps with an absent lap time change nothing in the pace statistics:
\* each of calculate_pace_consistency, calculate_race_pace and
\* calculate_tire_degradation returns on a table what it returns on the same
\* table without its laps of absent lap time (same rows, same values).
C14_AbsentLapTimeExcluded ==
    /\ called = "calculate_pace_consistency" =>
           result = calculate_pace_consistency(dropna(lap_times))
    /\ called = "calculate_race_pace" =>
           result = calculate_race_pace(WithoutAbsent(laps_df), param.num)
    /\ called = "calculate_tire_degradation" =>
           result = calculate_tire_degradation(WithoutAbsent(laps_df))

----------------------------------------------------------------------------
(* calculate_tire_degradation on tables in any order, with or without columns *)

DegTyreLives == {Flt(1), Flt(2), NaN}
DegLapTimes == {Flt(90), Flt(100), NaN}
DegColumnSets == {{"TyreLife", "LapTime"}, {"TyreLife"}, {"LapTime"}}

DegTables ==
    {[columns |-> cols, rows |-> [i \in 1..Len(c) |-> Restrict(c[i], cols)]] :
        cols \in DegColumnSets,
        c \in SeqsUpTo([TyreLife : DegTyreLives, LapTime : DegLapTimes], MaxDegRows)}
    \cup {NoFrame}

InitDegradation ==
    /\ lap_times = <<>>
    /\ laps_df \in DegTables
    /\ telemetry_df = NoFrame
    /\ telemetry2 = NoFrame
    /\ drivers = <<>>
    /\ called = "none"
    /\ param = NaN
    /\ result = None
    /\ cache = NoCache
    /\ session_state = NoSessionState

NextDegradation == CallTireDegradation

SpecDegradation == InitDegradation /\ [][NextDegradation]_vars

DegIdx == 1..Len(laps_df.rows)

\* the laps at tyre life t, and those of them with a present lap time
LapsAt(t) == {i \in DegIdx : laps_df.rows[i].TyreLife = t}
TimedLapsAt(t) == {i \in LapsAt(t) : ~isna(laps_df.rows[i].LapTime)}

\* one row per distinct present tyre life, ascending, with the mean and the
\* minimum of the present lap times at that tyre life
DegradationShape ==
    IF ~({"TyreLife", "LapTime"} \subseteq laps_df.columns) THEN result = EmptyFrame
    ELSE /\ result.kind = "frame"
         /\ LET out == result.value.rows
                times == Column(laps_df.rows, "LapTime")
            IN  /\ {out[k].TyreLife : k \in 1..Len(out)}
                       = {laps_df.rows[i].TyreLife : i \in DegIdx} \ {NaN}
                /\ \A k \in 1..Len(out) - 1 : FLt(out[k].TyreLife, out[k + 1].TyreLife)
                /\ laps_df.rows = <<>> => out = <<>>
                /\ \A k \in 1..Len(out) :
                       LET I == TimedLapsAt(out[k].TyreLife)
                       IN  IF I = {}
                           THEN isna(out[k].AvgLapTime) /\ isna(out[k].FastestLapTime)
                           ELSE /\ out[k].AvgLapTime.num * Cardinality(I)
                                       = IntSumOver(I, times) * out[k].AvgLapTime.den
                                /\ \E i \in I : out[k].FastestLapTime = times[i]
                                /\ \A i \in I : FLe(out[k].FastestLapTime, times[i])

\* C19 (as stated): calculate_tire_degradation returns one row per distinct
\* tyre life of the input, ascending whatever the input order, each with the
\* mean lap time, the minimum lap time and the number of laps at that tyre
\* life; an empty input or one missing TyreLife or LapTime gives an empty result.
C19_LapCountIsLapsAtTyreLife ==
    called = "calculate_tire_degradation" =>
        /\ DegradationShape
        /\ result.kind = "frame"
        /\ \A k \in 1..Len(result.value.rows) :
               result.value.rows[k].LapCount
                   = Cardinality(LapsAt(result.value.rows[k].TyreLife))

\* C19 (amended): as above, but LapCount is the number of laps at that tyre
\* life whose lap time is present; a tyre life none of whose laps has a lap
\* time has LapCount 0 and absent mean and minimum.
C19_LapCountIsTimedLaps ==
    called = "calculate_tire_degradation" =>
        /\ DegradationShape
        /\ result.kind = "frame"
        /\ \A k \in 1..Len(result.value.rows) :
               result.value.rows[k].LapCount
                   = Cardinality(TimedLapsAt(result.value.rows[k].TyreLife))

\* tyre lives given as 2, 1, 2, 1 with one absent lap time came out as the
\* rows 1 and 2, the row of tyre life 2 counting one lap of its two
C19_Witness ==
    /\ called = "calculate_tire_degradation"
    /\ laps_df.columns = {"TyreLife", "LapTime"}
    /\ Column(laps_df.rows, "TyreLife") = <<Flt(2), Flt(1), Flt(2), Flt(1)>>
    /\ Column(laps_df.rows, "LapTime") = <<Flt(90), Flt(100), NaN, Flt(90)>>
    /\ result.kind = "frame"
    /\ Column(result.value.rows, "TyreLife") = <<Flt(1), Flt(2)>>
    /\ Column(result.value.rows, "LapCount") = <<2, 1>>
    /\ result.value.rows[1].AvgLapTime = Flt(95)

----------------------------------------------------------------------------
(* calculate_qualifying_progression *)

QualiColumns == {"Driver", "LapTime", "Compound", "LapNumber"}

\* the driver codes in the order groupby sorts its keys
DriversSorted == <<"HAM", "LEC", "VER">>

\* Series.idxmin() of one driver's lap times: the position in the table of the
\* first lap holding the minimum of the present lap times, 0 when none is present
IdxMin(rows, d) ==
    LET I == {i \in 1..Len(rows) : rows[i].Driver = d /\ ~isna(rows[i].LapTime)}
    IN  IF I = {} THEN 0
        ELSE CHOOSE i \in I :
                 \A j \in I : \/ FLt(rows[i].LapTime, rows[j].LapTime)
                              \/ (rows[i].LapTime = rows[j].LapTime /\ i <= j)

\* groupby('Driver')['LapTime'].idxmin(): one label per driver of the table, in
\* sorted key order
RECURSIVE GroupIdxMin(_, _)
GroupIdxMin(rows, keys) ==
    IF keys = <<>> THEN <<>>
    ELSE IF \E i \in 1..Len(rows) : rows[i].Driver = Head(keys)
         THEN <<IdxMin(rows, Head(keys))>> \o GroupIdxMin(rows, Tail(keys))
         ELSE GroupIdxMin(rows, Tail(keys))

\* sort_values('LapTime') with the default (unstable) algorithm: every
\* arrangement of the rows with non-decreasing lap times
SortValuesByLapTime(rows) ==
    LET n == Len(rows)
        perms == {f \in [1..n -> 1..n] : \A a, b \in 1..n : f[a] = f[b] => a = b}
    IN  {[k \in 1..n |-> rows[f[k]]] :
            f \in {g \in perms :
                      \A k \in 1..n - 1 : FLe(rows[g[k]].LapTime, rows[g[k + 1]].LapTime)}}

\* mutant: drivers without a present lap time are left out instead of looked up
Mut_quali_skips_untimed(df) ==
    IF "LapTime" \notin df.columns \/ "Driver" \notin df.columns THEN {EmptyFrame}
    ELSE LET labels == SelectSeq(GroupIdxMin(df.rows, DriversSorted), LAMBDA l : l # 0)
             best_laps == [k \in 1..Len(labels) |-> df.rows[labels[k]]]
         IN  IF ~({"Compound", "LapNumber"} \subseteq df.columns) THEN {Raise("KeyError")}
             ELSE {Frame(QualiColumns, [k \in 1..Len(out) |-> Restrict(out[k], QualiColumns)]) :
                      out \in SortValuesByLapTime(best_laps)}

\* the results the call can give.  For a driver without a present lap time
\* idxmin gives NaN, which .loc does not find (KeyError), or raises ValueError
\* itself, depending on the pandas version.
calculate_qualifying_progression(df) ==
    IF "LapTime" \notin df.columns \/ "Driver" \notin df.columns THEN {EmptyFrame}
    ELSE LET labels == GroupIdxMin(df.rows, DriversSorted)
         IN  IF \E k \in 1..Len(labels) : labels[k] = 0
             THEN {Raise("KeyError"), Raise("ValueError")}
             ELSE LET best_laps == [k \in 1..Len(labels) |-> df.rows[labels[k]]]
                  IN  IF ~({"Compound", "LapNumber"} \subseteq df.columns)
                      THEN {Raise("KeyError")}
                      ELSE {Frame(QualiColumns,
                                  [k \in 1..Len(out) |-> Restrict(out[k], QualiColumns)]) :
                               out \in SortValuesByLapTime(best_laps)}

----------------------------------------------------------------------------
(* calculate_qualifying_progression on a qualifying session *)

QualiDrivers == {"VER", "HAM", "LEC"}
QualiLapTimes == {Flt(80), Flt(81), NaN}
QualiInputColumns == {"Driver", "LapTime", "Compound", "LapNumber"}

QualiLap(i, cell) ==
    [Driver |-> cell.Driver, LapTime |-> cell.LapTime, Compound |-> "SOFT", LapNumber |-> i]

InitQuali ==
    /\ lap_times = <<>>
    /\ laps_df \in {[columns |-> QualiInputColumns,
                     rows |-> [i \in 1..Len(c) |-> QualiLap(i, c[i])]] :
                       c \in SeqsUpTo([Driver : QualiDrivers, LapTime : QualiLapTimes],
                                      MaxQualiRows)}
    /\ telemetry_df = NoFrame
    /\ telemetry2 = NoFrame
    /\ drivers = <<>>
    /\ called = "none"
    /\ param = NaN
    /\ result = None
    /\ cache = NoCache
    /\ session_state = NoSessionState

\* the statements of calculate_qualifying_progression (lines 302-304) when it
\* returns returned: best_laps holds the rows .loc selects, and sort_values and
\* the selection of four columns build the table returned
QualifyingBody(df, returned) ==
    IF "LapTime" \notin df.columns \/ "Driver" \notin df.columns THEN <<>>
    ELSE LET labels == GroupIdxMin(df.rows, DriversSorted)
         IN  IF \E k \in 1..Len(labels) : labels[k] = 0 THEN <<>>
             ELSE <<Loc("best_laps", "session_laps", labels)>>
                  \o (IF returned.kind = "frame" THEN <<Make("return", returned.value)>>
                      ELSE <<>>)

CallQualifyingProgression ==
    \E r \in calculate_qualifying_progression(laps_df) :
        /\ called' = "calculate_qualifying_progression"
        /\ param' = NaN
        /\ result' = r
        /\ laps_df' = ArgAfter(<<"session_laps">>, <<laps_df>>,
                               QualifyingBody(laps_df, r), 1)
        /\ UNCHANGED <<lap_times, telemetry_df, telemetry2, drivers, cache, session_state>>

NextQuali == CallQualifyingProgression

SpecQuali == InitQuali /\ [][NextQuali]_vars

QualiIdx == 1..Len(laps_df.rows)

\* the drivers of the session with at least one present lap time
TimedDrivers ==
    {laps_df.rows[i].Driver : i \in {j \in QualiIdx : ~isna(laps_df.rows[j].LapTime)}}

\* C15: calculate_qualifying_progression returns exactly one row per driver
\* with at least one present lap time, that row being the driver's first lap
\* (in input order) holding the driver's minimum present lap time; the rows are
\* in ascending lap-time order; a driver all of whose lap times are absent
\* causes no error.
C15_BestLapPerDriver ==
    called = "calculate_qualifying_progression" =>
        /\ result.kind = "frame"
        /\ LET out == result.value.rows
               rows == laps_df.rows
           IN  /\ Len(out) = Cardinality(TimedDrivers)
               /\ {out[k].Driver : k \in 1..Len(out)} = TimedDrivers
               /\ \A k \in 1..Len(out) - 1 : FLe(out[k].LapTime, out[k + 1].LapTime)
               /\ \A k \in 1..Len(out) :
                      \E i \in QualiIdx :
                          /\ out[k] = Restrict(rows[i], QualiColumns)
                          /\ ~isna(rows[i].LapTime)
                          /\ \A j \in QualiIdx :
                                 (rows[j].Driver = rows[i].Driver /\ ~isna(rows[j].LapTime))
                                     => \/ FLt(rows[i].LapTime, rows[j].LapTime)
                                        \/ (rows[i].LapTime = rows[j].LapTime /\ i <= j)

----------------------------------------------------------------------------
(* calculate_speed_trap_stats *)

SpeedKeys == {"max_speed", "avg_speed", "min_speed", "top_5_percent"}

\* the dictionary of an empty literal {}
EmptyDict == Dict([k \in {} |-> NaN])

\* mutant: a speed series without valid samples gives the empty dictionary
Mut_speed_empty_when_no_samples(df) ==
    IF "Speed" \notin df.columns THEN EmptyDict
    ELSE LET speeds == dropna(Column(df.rows, "Speed"))
         IN  IF speeds = <<>> THEN EmptyDict
             ELSE Dict([max_speed |-> SeriesMax(speeds),
                        avg_speed |-> SeriesMean(speeds),
                        min_speed |-> SeriesMin(speeds),
                        top_5_percent |-> Quantile(speeds, 19, 20)])

calculate_speed_trap_stats(df) ==
    IF "Speed" \notin df.columns THEN EmptyDict
    ELSE LET speeds == dropna(Column(df.rows, "Speed"))
         IN  Dict([max_speed |-> SeriesMax(speeds),
                   avg_speed |-> SeriesMean(speeds),
                   min_speed |-> SeriesMin(speeds),
                   top_5_percent |-> Quantile(speeds, 19, 20)])

----------------------------------------------------------------------------
(* calculate_speed_trap_stats on a telemetry trace *)

SpeedValues == {Flt(100), Flt(200), Flt(300), NaN}
SpeedColumnSets == {{"Distance", "Speed"}, {"Distance"}}

SpeedSample(i, v) == [Distance |-> Flt(i), Speed |-> v]

InitSpeed ==
    /\ lap_times = <<>>
    /\ laps_df = NoFrame
    /\ telemetry_df \in
           {[columns |-> cols,
             rows |-> [i \in 1..Len(v) |-> Restrict(SpeedSample(i, v[i]), cols)]] :
               cols \in SpeedColumnSets, v \in SeqsUpTo(SpeedValues, MaxSpeedSamples)}
    /\ telemetry2 = NoFrame
    /\ drivers = <<>>
    /\ called = "none"
    /\ param = NaN
    /\ result = None
    /\ cache = NoCache
    /\ session_state = NoSessionState

\* the statements of calculate_speed_trap_stats: speeds is the Speed column
\* without its absent values (line 143)
SpeedTrapBody(df) ==
    IF "Speed" \notin df.columns THEN <<>>
    ELSE <<Make("speeds", dropna(Column(df.rows, "Speed")))>>

CallSpeedTrapStats ==
    /\ called' = "calculate_speed_trap_stats"
    /\ param' = NaN
    /\ result' = calculate_speed_trap_stats(telemetry_df)
    /\ telemetry_df' = ArgAfter(<<"telemetry_df">>, <<telemetry_df>>,
                                SpeedTrapBody(telemetry_df), 1)
    /\ UNCHANGED <<lap_times, laps_df, telemetry2, drivers, cache, session_state>>

NextSpeed == CallSpeedTrapStats

SpecSpeed == InitSpeed /\ [][NextSpeed]_vars

\* the valid speed samples of the trace (none when the column is missing)
ValidSpeeds ==
    IF "Speed" \in telemetry_df.columns
    THEN {i \in 1..Len(telemetry_df.rows) : ~isna(telemetry_df.rows[i].Speed)}
    ELSE {}

\* C16: calculate_speed_trap_stats returns the empty mapping, without error,
\* when the Speed column is missing and when it holds no valid sample; with at
\* least one valid sample it returns the four keys max, avg, min and 95th
\* percentile, with min <= avg <= max and min <= p95 <= max.
C16_SpeedStatsOrEmpty ==
    called = "calculate_speed_trap_stats" =>
        /\ result.kind = "dict"
        /\ IF ValidSpeeds = {} THEN DOMAIN result.value = {}
           ELSE /\ DOMAIN result.value = SpeedKeys
                /\ LET r == result.value
                   IN  /\ FLe(r.min_speed, r.avg_speed) /\ FLe(r.avg_speed, r.max_speed)
                       /\ FLe(r.min_speed, r.top_5_percent)
                       /\ FLe(r.top_5_percent, r.max_speed)

----------------------------------------------------------------------------
(* compare_telemetry_delta *)

DeltaColumns == {"Distance", "Speed1", "Speed2", "SpeedDelta"}

\* DataFrame.empty: no rows or no columns
IsEmpty(df) == df.rows = <<>> \/ df.columns = {}

\* merge_asof requires its keys present and sorted
SortedByDistance(rows) ==
    /\ \A i \in 1..Len(rows) : ~isna(rows[i].Distance)
    /\ \A i \in 1..Len(rows) - 1 : FLe(rows[i].Distance, rows[i + 1].Distance)

\* the backward match of distance x: the last row of the right trace at or
\* before x (0 when there is none); the forward match: the first at or after x
BackwardMatch(right, x) ==
    LET I == {j \in 1..Len(right) : FLe(right[j].Distance, x)}
    IN  IF I = {} THEN 0 ELSE CHOOSE j \in I : \A k \in I : k <= j

ForwardMatch(right, x) ==
    LET I == {j \in 1..Len(right) : FLe(x, right[j].Distance)}
    IN  IF I = {} THEN 0 ELSE CHOOSE j \in I : \A k \in I : j <= k

\* direction='nearest': the closer of the two matches, the backward one when
\* they are equally close
NearestMatch(right, x) ==
    LET b == BackwardMatch(right, x)
        f == ForwardMatch(right, x)
    IN  IF b # 0 /\ f # 0
        THEN IF FLe(FSub(x, right[b].Distance), FSub(right[f].Distance, x)) THEN b ELSE f
        ELSE IF b # 0 THEN b ELSE f

\* mutant: the join looks backward only (an unmatched sample gets no Speed2)
Mut_delta_backward_only(t1, t2) ==
    IF IsEmpty(t1) \/ IsEmpty(t2) THEN EmptyFrame
    ELSE IF ~({"Distance", "Speed"} \subseteq t1.columns)
            \/ ~({"Distance", "Speed"} \subseteq t2.columns)
         THEN Raise("KeyError")
         ELSE IF ~SortedByDistance(t1.rows) \/ ~SortedByDistance(t2.rows)
              THEN Raise("ValueError")
              ELSE Frame(DeltaColumns,
                         [i \in 1..Len(t1.rows) |->
                             LET j == BackwardMatch(t2.rows, t1.rows[i].Distance)
                                 speed2 == IF j = 0 THEN NaN ELSE t2.rows[j].Speed
                             IN  [Distance |-> t1.rows[i].Distance,
                                  Speed1 |-> t1.rows[i].Speed,
                                  Speed2 |-> speed2,
                                  SpeedDelta |-> FSub(t1.rows[i].Speed, speed2)]])

compare_telemetry_delta(t1, t2) ==
    IF IsEmpty(t1) \/ IsEmpty(t2) THEN EmptyFrame
    ELSE IF ~({"Distance", "Speed"} \subseteq t1.columns)
            \/ ~({"Distance", "Speed"} \subseteq t2.columns)
         THEN Raise("KeyError")
         ELSE IF ~SortedByDistance(t1.rows) \/ ~SortedByDistance(t2.rows)
              THEN Raise("ValueError")
              ELSE Frame(DeltaColumns,
                         [i \in 1..Len(t1.rows) |->
                             LET j == NearestMatch(t2.rows, t1.rows[i].Distance)
                             IN  [Distance |-> t1.rows[i].Distance,
                                  Speed1 |-> t1.rows[i].Speed,
                                  Speed2 |-> t2.rows[j].Speed,
                                  SpeedDelta |-> FSub(t1.rows[i].Speed, t2.rows[j].Speed)]])

----------------------------------------------------------------------------
(* compare_telemetry_delta on two traces of a lap *)

DeltaDistances == {Flt(10), Flt(20), Flt(30)}
DeltaSpeeds1 == {Flt(200), NaN}

\* the samples of a trace are in distance order
DeltaCells1 ==
    {c \in SeqsUpTo([Distance : DeltaDistances, Speed : DeltaSpeeds1], MaxDeltaSamples) :
        SortedByDistance(c)}

\* sample j of the second trace has a speed of its own
DeltaCells2 ==
    {[j \in 1..Len(d) |-> [Distance |-> d[j], Speed |-> Flt(100 + 10 * j)]] :
        d \in {e \in SeqsUpTo(DeltaDistances, MaxDeltaSamples) :
                  \A i \in 1..Len(e) - 1 : FLe(e[i], e[i + 1])}}

InitDelta ==
    /\ lap_times = <<>>
    /\ laps_df = NoFrame
    /\ telemetry_df \in {[columns |-> {"Distance", "Speed"}, rows |-> c] : c \in DeltaCells1}
    /\ telemetry2 \in {[columns |-> {"Distance", "Speed"}, rows |-> c] : c \in DeltaCells2}
    /\ drivers = <<>>
    /\ called = "none"
    /\ param = NaN
    /\ result = None
    /\ cache = NoCache
    /\ session_state = NoSessionState

\* the statements of compare_telemetry_delta (lines 191-198): the two
\* selections (which rename copies), the merged table, and SpeedDelta assigned
\* on the merged table
TelemetryDeltaBody(t1, t2) ==
    LET returned == compare_telemetry_delta(t1, t2)
    IN  IF IsEmpty(t1) \/ IsEmpty(t2) \/ returned.kind # "frame" THEN <<>>
        ELSE <<Select("left", "telemetry1", {"Distance", "Speed"}),
               Select("right", "telemetry2", {"Distance", "Speed"}),
               Make("merged",
                    [columns |-> {"Distance", "Speed1", "Speed2"},
                     rows |-> [i \in 1..Len(returned.value.rows) |->
                                  Restrict(returned.value.rows[i],
                                           {"Distance", "Speed1", "Speed2"})]]),
               Assign("merged", "SpeedDelta", Column(returned.value.rows, "SpeedDelta"))>>

CallTelemetryDelta ==
    /\ called' = "compare_telemetry_delta"
    /\ param' = NaN
    /\ result' = compare_telemetry_delta(telemetry_df, telemetry2)
    /\ telemetry_df' = ArgAfter(<<"telemetry1", "telemetry2">>,
                                <<telemetry_df, telemetry2>>,
                                TelemetryDeltaBody(telemetry_df, telemetry2), 1)
    /\ telemetry2' = ArgAfter(<<"telemetry1", "telemetry2">>,
                              <<telemetry_df, telemetry2>>,
                              TelemetryDeltaBody(telemetry_df, telemetry2), 2)
    /\ UNCHANGED <<lap_times, laps_df, drivers, cache, session_state>>

NextDelta == CallTelemetryDelta

SpecDelta == InitDelta /\ [][NextDelta]_vars

\* how far apart two distances are
DistGap(a, b) == Abs(a.num - b.num)

\* C18: compare_telemetry_delta returns an empty result when either trace is
\* empty; otherwise one row per sample of the first trace, in distance order,
\* paired with a sample of the second trace whose distance is nearest (equal
\* or not), with SpeedDelta = Speed1 - Speed2 of that pair.
C18_NearestDistanceJoin ==
    called = "compare_telemetry_delta" =>
        IF telemetry_df.rows = <<>> \/ telemetry2.rows = <<>> THEN result = EmptyFrame
        ELSE /\ result.kind = "frame"
             /\ LET out == result.value.rows
                    t1 == telemetry_df.rows
                    t2 == telemetry2.rows
                IN  /\ Len(out) = Len(t1)
                    /\ \A k \in 1..Len(out) - 1 : FLe(out[k].Distance, out[k + 1].Distance)
                    /\ \A k \in 1..Len(out) :
                           /\ out[k].Distance = t1[k].Distance
                           /\ out[k].Speed1 = t1[k].Speed
                           /\ \E j \in 1..Len(t2) :
                                  /\ out[k].Speed2 = t2[j].Speed
                                  /\ \A m \in 1..Len(t2) :
                                         DistGap(t2[j].Distance, t1[k].Distance)
                                             <= DistGap(t2[m].Distance, t1[k].Distance)
                           /\ out[k].SpeedDelta =
                                  (IF isna(out[k].Speed1) THEN NaN
                                   ELSE Flt(out[k].Speed1.num - out[k].Speed2.num))

\* a sample at distance 10 of the first trace was paired with the sample at
\* distance 20 of the second, which has none at distance 10
C18_Witness ==
    /\ called = "compare_telemetry_delta"
    /\ Column(telemetry_df.rows, "Distance") = <<Flt(10), Flt(30)>>
    /\ Column(telemetry_df.rows, "Speed") = <<Flt(200), Flt(200)>>
    /\ Column(telemetry2.rows, "Distance") = <<Flt(20), Flt(30), Flt(30)>>
    /\ result.kind = "frame"
    /\ Column(result.value.rows, "Speed2") = <<Flt(110), Flt(130)>>
    /\ Column(result.value.rows, "SpeedDelta") = <<Flt(90), Flt(70)>>

----------------------------------------------------------------------------
(* calculate_sector_analysis *)

sector_cols == <<"Sector1Time", "Sector2Time", "Sector3Time">>

\* f'{sector}_fastest' and f'{sector}_mean'
FastestName ==
    [Sector1Time |-> "Sector1Time_fastest", Sector2Time |-> "Sector2Time_fastest",
     Sector3Time |-> "Sector3Time_fastest"]

MeanName ==
    [Sector1Time |-> "Sector1Time_mean", Sector2Time |-> "Sector2Time_mean",
     Sector3Time |-> "Sector3Time_mean"]

\* the loop over the available sectors: the columns of the one-row analysis
\* frame after the sectors from position i on
RECURSIVE SectorLoop(_, _, _)
SectorLoop(df, i, analysis) ==
    IF i > Len(sector_cols) THEN analysis
    ELSE LET sector == sector_cols[i]
         IN  IF sector \notin df.columns THEN SectorLoop(df, i + 1, analysis)
             ELSE LET sector_data == dropna(Column(df.rows, sector))
                  IN  IF Len(sector_data) > 0
                      THEN SectorLoop(df, i + 1,
                               WithColumn(WithColumn(analysis, FastestName[sector],
                                                     SeriesMin(sector_data)),
                                          MeanName[sector], SeriesMean(sector_data)))
                      ELSE SectorLoop(df, i + 1, analysis)

\* a frame of one row, or pd.DataFrame() when no column was assigned
OneRowFrame(row) ==
    IF DOMAIN row = {} THEN EmptyFrame ELSE Frame(DOMAIN row, <<row>>)

\* mutant: the length test looks at the column before dropna
RECURSIVE Mut_sector_loop_len_before_dropna(_, _, _)
Mut_sector_loop_len_before_dropna(df, i, analysis) ==
    IF i > Len(sector_cols) THEN analysis
    ELSE LET sector == sector_cols[i]
         IN  IF sector \notin df.columns
             THEN Mut_sector_loop_len_before_dropna(df, i + 1, analysis)
             ELSE LET sector_data == Column(df.rows, sector)
                  IN  IF Len(sector_data) > 0
                      THEN Mut_sector_loop_len_before_dropna(df, i + 1,
                               WithColumn(WithColumn(analysis, FastestName[sector],
                                                     SeriesMin(sector_data)),
                                          MeanName[sector], SeriesMean(sector_data)))
                      ELSE Mut_sector_loop_len_before_dropna(df, i + 1, analysis)

Mut_sector_len_before_dropna(df) ==
    OneRowFrame(Mut_sector_loop_len_before_dropna(df, 1, [k \in {} |-> NaN]))

calculate_sector_analysis(df) ==
    IF \A i \in 1..Len(sector_cols) : sector_cols[i] \notin df.columns THEN EmptyFrame
    ELSE OneRowFrame(SectorLoop(df, 1, [k \in {} |-> NaN]))

----------------------------------------------------------------------------
(* calculate_sector_analysis on lap tables with some or all sector columns *)

SectorNames == {"Sector1Time", "Sector2Time", "Sector3Time"}
SectorTimes == {Flt(30), Flt(31), NaN}
SectorColumnSets == {{"LapNumber"} \cup S : S \in SUBSET SectorNames}

SectorLapRow(i, cell) ==
    [LapNumber |-> i, Sector1Time |-> cell[1], Sector2Time |-> cell[2],
     Sector3Time |-> cell[3]]

InitSector ==
    /\ lap_times = <<>>
    /\ laps_df \in {[columns |-> cols,
                     rows |-> [i \in 1..Len(c) |-> Restrict(SectorLapRow(i, c[i]), cols)]] :
                       cols \in SectorColumnSets,
                       c \in SeqsUpTo(SectorTimes \X SectorTimes \X SectorTimes,
                                      MaxSectorRows)}
    /\ telemetry_df = NoFrame
    /\ telemetry2 = NoFrame
    /\ drivers = <<>>
    /\ called = "none"
    /\ param = NaN
    /\ result = None
    /\ cache = NoCache
    /\ session_state = NoSessionState

\* the statements of calculate_sector_analysis (lines 119-125): analysis is a
\* new empty table, and the two columns of each sector that has a time are
\* assigned on it
RECURSIVE SectorLoopBody(_, _)
SectorLoopBody(df, i) ==
    IF i > Len(sector_cols) THEN <<>>
    ELSE LET sector == sector_cols[i]
             sector_data == dropna(Column(df.rows, sector))
         IN  IF sector \notin df.columns THEN SectorLoopBody(df, i + 1)
             ELSE <<Make("sector_data", sector_data)>>
                  \o (IF Len(sector_data) > 0
                      THEN <<Assign("analysis", FastestName[sector],
                                    <<SeriesMin(sector_data)>>),
                             Assign("analysis", MeanName[sector],
                                    <<SeriesMean(sector_data)>>)>>
                      ELSE <<>>)
                  \o SectorLoopBody(df, i + 1)

SectorAnalysisBody(df) ==
    IF \A i \in 1..Len(sector_cols) : sector_cols[i] \notin df.columns THEN <<>>
    ELSE <<Make("analysis", NoFrame)>> \o SectorLoopBody(df, 1)

CallSectorAnalysis ==
    /\ called' = "calculate_sector_analysis"
    /\ param' = NaN
    /\ result' = calculate_sector_analysis(laps_df)
    /\ laps_df' = ArgAfter(<<"laps_df">>, <<laps_df>>, SectorAnalysisBody(laps_df), 1)
    /\ UNCHANGED <<lap_times, telemetry_df, telemetry2, drivers, cache, session_state>>

NextSector == CallSectorAnalysis

SpecSector == InitSector /\ [][NextSector]_vars

\* the laps with a valid time in sector s
SectorValid(s) ==
    IF s \in laps_df.columns
    THEN {i \in 1..Len(laps_df.rows) : ~isna(laps_df.rows[i][s])}
    ELSE {}

\* the sectors that are present and have a valid sample
SectorsWithData == {s \in SectorNames : SectorValid(s) # {}}

\* the lap table reduced to the one sector column s
OnlySector(s) ==
    [columns |-> laps_df.columns \cap {s},
     rows |-> [i \in 1..Len(laps_df.rows) |-> Restrict(laps_df.rows[i], laps_df.columns \cap {s})]]

\* C20: calculate_sector_analysis holds a fastest (minimum) and a mean entry
\* for exactly the sector columns that are present and have a valid sample; a
\* sector without valid samples has no entry (neither zero nor NaN), and the
\* entries of a sector are those the function gives on that sector's column
\* alone, whatever the other sectors hold.
C20_SectorsIndependent ==
    called = "calculate_sector_analysis" =>
        /\ result.kind = "frame"
        /\ result.value.columns =
               {FastestName[s] : s \in SectorsWithData} \cup {MeanName[s] : s \in SectorsWithData}
        /\ IF SectorsWithData = {} THEN result.value.rows = <<>>
           ELSE /\ Len(result.value.rows) = 1
                /\ LET row == result.value.rows[1]
                   IN  /\ DOMAIN row = result.value.columns
                       /\ \A s \in SectorsWithData :
                              LET I == SectorValid(s)
                                  times == Column(laps_df.rows, s)
                                  alone == calculate_sector_analysis(OnlySector(s)).value.rows[1]
                              IN  /\ \E i \in I : row[FastestName[s]] = times[i]
                                  /\ \A i \in I : FLe(row[FastestName[s]], times[i])
                                  /\ ~isna(row[MeanName[s]])
                                  /\ row[MeanName[s]].num * Cardinality(I)
                                         = IntSumOver(I, times) * row[MeanName[s]].den
                                  /\ row[FastestName[s]] = alone[FastestName[s]]
                                  /\ row[MeanName[s]] = alone[MeanName[s]]

\* sector 1 has the times 31 and 30, sector 2 is present without a valid time,
\* sector 3 is missing: the result has the two entries of sector 1 and no other
C20_Witness ==
    /\ called = "calculate_sector_analysis"
    /\ laps_df.columns = {"LapNumber", "Sector1Time", "Sector2Time"}
    /\ Column(laps_df.rows, "Sector1Time") = <<Flt(31), Flt(30)>>
    /\ Column(laps_df.rows, "Sector2Time") = <<NaN, NaN>>
    /\ result.kind = "frame"
    /\ result.value.columns = {"Sector1Time_fastest", "Sector1Time_mean"}
    /\ result.value.rows[1].Sector1Time_fastest = Flt(30)
    /\ result.value.rows[1].Sector1Time_mean = Rat(61, 2)

----------------------------------------------------------------------------
(* create_lap_time_chart *)

\* color=None: the trace has no colour of its own
NoColor == "<none>"

\* an absent (NaN) team name
NoTeam == "<absent>"

\* team_colors.get(team_name, None) with the table of create_lap_time_chart
LapChartTeamColor(team_name) ==
    CASE team_name = "Red Bull Racing" -> "#3671C6"
      [] team_name = "Mercedes" -> "#27F4D2"
      [] team_name = "Ferrari" -> "#E8002D"
      [] team_name = "McLaren" -> "#FF8000"
      [] team_name = "Alpine" -> "#FF87BC"
      [] team_name = "Aston Martin" -> "#229971"
      [] team_name = "RB" -> "#6692FF"
      [] team_name = "Haas F1 Team" -> "#B6BABD"
      [] team_name = "Williams" -> "#64C4FF"
      [] team_name = "Sauber" -> "#52E252"
      [] OTHER -> NoColor

\* the trace of one driver: the lap numbers and lap times (seconds) of the
\* laps under valid_mask, and the colour of the team of the driver's first lap
LapTimeTrace(df, driver, driver_laps) ==
    LET valid == SelectSeq(driver_laps, LAMBDA r : ~isna(r.LapTime))
    IN  [name |-> driver,
         x |-> Column(valid, "LapNumber"),
         y |-> Column(valid, "LapTime"),
         color |-> IF "Team" \in df.columns
                   THEN LapChartTeamColor(driver_laps[1].Team)
                   ELSE NoColor]

RECURSIVE LapTimeTraces(_, _)
LapTimeTraces(df, drvs) ==
    IF drvs = <<>> THEN <<>>
    ELSE LET driver_laps == SelectSeq(df.rows, LAMBDA r : r.Driver = Head(drvs))
         IN  IF driver_laps = <<>>
                \/ \A i \in 1..Len(driver_laps) : isna(driver_laps[i].LapTime)
             THEN LapTimeTraces(df, Tail(drvs))
             ELSE <<LapTimeTrace(df, Head(drvs), driver_laps)>>
                      \o LapTimeTraces(df, Tail(drvs))

\* mutant: the trace keeps the laps without a lap time
RECURSIVE Mut_lap_traces_keep_absent(_, _)
Mut_lap_traces_keep_absent(df, drvs) ==
    IF drvs = <<>> THEN <<>>
    ELSE LET driver_laps == SelectSeq(df.rows, LAMBDA r : r.Driver = Head(drvs))
         IN  IF driver_laps = <<>>
             THEN Mut_lap_traces_keep_absent(df, Tail(drvs))
             ELSE <<[LapTimeTrace(df, Head(drvs), driver_laps) EXCEPT
                        !.x = Column(driver_laps, "LapNumber"),
                        !.y = Column(driver_laps, "LapTime")]>>
                      \o Mut_lap_traces_keep_absent(df, Tail(drvs))

Mut_lap_chart_keeps_absent(df, drvs) ==
    IF drvs # <<>> /\ "Driver" \notin df.columns THEN Raise("KeyError")
    ELSE Figure(Mut_lap_traces_keep_absent(df, drvs))

\* a requested driver who has laps makes the loop read LapTime and LapNumber
create_lap_time_chart(df, drvs) ==
    IF drvs # <<>> /\ "Driver" \notin df.columns THEN Raise("KeyError")
    ELSE IF /\ ~({"LapTime", "LapNumber"} \subseteq df.columns)
            /\ \E i \in 1..Len(drvs), j \in 1..Len(df.rows) : df.rows[j].Driver = drvs[i]
         THEN Raise("KeyError")
         ELSE Figure(LapTimeTraces(df, drvs))

----------------------------------------------------------------------------
(* create_position_chart *)

\* team_colors.get(team_name, None) with the table of create_position_chart
PositionChartTeamColor(team_name) ==
    CASE team_name = "Red Bull Racing" -> "#3671C6"
      [] team_name = "Mercedes" -> "#27F4D2"
      [] team_name = "Ferrari" -> "#E8002D"
      [] team_name = "McLaren" -> "#FF8000"
      [] team_name = "Aston Martin" -> "#229971"
      [] team_name = "Alpine" -> "#FF87BC"
      [] team_name = "Williams" -> "#64C4FF"
      [] team_name = "RB" -> "#6692FF"
      [] team_name = "Kick Sauber" -> "#52E252"
      [] team_name = "Haas F1 Team" -> "#B6BABD"
      [] OTHER -> NoColor

\* f'#{color}' for the colour codes of the model that lack the sign
WithHash(color) ==
    CASE color = "E8002D" -> "#E8002D"
      [] color = "27F4D2" -> "#27F4D2"
      [] OTHER -> color

\* the colour of a driver's trace: the team's colour, else the TeamColor of
\* the driver's first row with the '#' put in front
PositionColor(df, driver_data) ==
    LET color == IF "Team" \in df.columns
                 THEN PositionChartTeamColor(driver_data[1].Team)
                 ELSE NoColor
    IN  IF color = NoColor /\ "TeamColor" \in df.columns
        THEN WithHash(driver_data[1].TeamColor)
        ELSE color

\* a figure with its traces, its annotation text ("" when it has none) and
\* the autorange setting of its y axis ("" when the layout was not set)
PositionFigure(traces, annotation, autorange) ==
    [kind |-> "figure",
     value |-> [data |-> traces, annotation |-> annotation, yaxis_autorange |-> autorange]]

RECURSIVE PositionTraces(_, _, _)
PositionTraces(df, laps_with_pos, drvs) ==
    IF drvs = <<>> THEN <<>>
    ELSE LET driver_data == SelectSeq(laps_with_pos, LAMBDA r : r.Driver = Head(drvs))
         IN  IF driver_data = <<>> THEN PositionTraces(df, laps_with_pos, Tail(drvs))
             ELSE <<[name |-> Head(drvs),
                     x |-> Column(driver_data, "LapNumber"),
                     y |-> Column(driver_data, "Position"),
                     color |-> PositionColor(df, driver_data)]>>
                      \o PositionTraces(df, laps_with_pos, Tail(drvs))

\* mutant: the builder negates the positions itself
Mut_position_chart_negates(df, drvs) ==
    IF "Position" \notin df.columns \/ "LapNumber" \notin df.columns
    THEN PositionFigure(<<>>, "Position data not available", "")
    ELSE LET laps_with_pos == SelectSeq(df.rows, LAMBDA r : ~isna(r.Position))
         IN  IF laps_with_pos = <<>>
             THEN PositionFigure(<<>>, "No position data available", "")
             ELSE IF "Driver" \notin df.columns THEN Raise("KeyError")
                  ELSE LET all_drivers == Unique(Column(laps_with_pos, "Driver"), {})
                           drivers_to_plot == IF drvs # <<>> THEN drvs ELSE all_drivers
                           traces == PositionTraces(df, laps_with_pos, drivers_to_plot)
                       IN  PositionFigure(
                               [k \in 1..Len(traces) |->
                                   [traces[k] EXCEPT
                                       !.y = [i \in 1..Len(traces[k].y) |->
                                                 FSub(Flt(0), traces[k].y[i])]]],
                               "", "")

create_position_chart(df, drvs) ==
    IF "Position" \notin df.columns \/ "LapNumber" \notin df.columns
    THEN PositionFigure(<<>>, "Position data not available", "")
    ELSE LET laps_with_pos == SelectSeq(df.rows, LAMBDA r : ~isna(r.Position))
         IN  IF laps_with_pos = <<>>
             THEN PositionFigure(<<>>, "No position data available", "")
             ELSE IF "Driver" \notin df.columns THEN Raise("KeyError")
                  ELSE LET all_drivers == Unique(Column(laps_with_pos, "Driver"), {})
                           drivers_to_plot == IF drvs # <<>> THEN drvs ELSE all_drivers
                       IN  PositionFigure(PositionTraces(df, laps_with_pos, drivers_to_plot),
                                          "", "reversed")

----------------------------------------------------------------------------
(* the lap-time and position charts on the laps of a race *)

ChartTeams == {"Ferrari", "Sauber", "Kick Sauber", "Cadillac", NoTeam}
ChartColumnSets ==
    {{"Driver", "LapNumber", "LapTime", "Position"},
     {"Driver", "LapNumber", "LapTime", "Position", "Team"},
     {"Driver", "LapNumber", "LapTime", "Position", "Team", "TeamColor"}}
ChartCells == [Driver : {"VER", "HAM"}, LapTime : {Flt(90), NaN}, Position : {Flt(2), NaN}]
ChartDriverLists == {<<>>, <<"HAM", "LEC", "VER">>}

\* row j of the table: the lap number is the driver's lap count so far; VER
\* drives for the given team and HAM for Mercedes
ChartTable(cells, team) ==
    [j \in 1..Len(cells) |->
        [Driver |-> cells[j].Driver,
         LapNumber |-> Cardinality({k \in 1..j : cells[k].Driver = cells[j].Driver}),
         LapTime |-> cells[j].LapTime,
         Position |-> cells[j].Position,
         Team |-> IF cells[j].Driver = "VER" THEN team ELSE "Mercedes",
         TeamColor |-> IF cells[j].Driver = "VER" THEN "E8002D" ELSE "27F4D2"]]

InitCharts ==
    /\ lap_times = <<>>
    /\ laps_df \in {[columns |-> cols,
                     rows |-> [j \in 1..Len(c) |-> Restrict(ChartTable(c, team)[j], cols)]] :
                       cols \in ChartColumnSets, team \in ChartTeams,
                       c \in SeqsUpTo(ChartCells, MaxChartRows)}
    /\ telemetry_df = NoFrame
    /\ telemetry2 = NoFrame
    /\ drivers \in ChartDriverLists
    /\ called = "none"
    /\ param = NaN
    /\ result = None
    /\ cache = NoCache
    /\ session_state = NoSessionState

\* the statements of create_lap_time_chart (lines 43-65), driver by driver:
\* driver_laps is a new table (pick_driver's selection on a fastf1 Laps table,
\* the copy of line 48 on a plain one), and the series plotted are read of it.
\* A table without LapTime raises at line 54 and one without LapNumber at line
\* 64, for the first driver with laps.
RECURSIVE LapTimeChartBody(_, _)
LapTimeChartBody(df, drvs) ==
    IF drvs = <<>> \/ "Driver" \notin df.columns THEN <<>>
    ELSE LET of_driver == [i \in 1..Len(df.rows) |-> df.rows[i].Driver = Head(drvs)]
             driver_laps == MaskRows(df.rows, of_driver)
             valid == SelectSeq(driver_laps, LAMBDA r : ~isna(r.LapTime))
             picked == <<Filter("driver_laps", "laps_df", of_driver)>>
         IN  IF driver_laps = <<>> THEN picked \o LapTimeChartBody(df, Tail(drvs))
             ELSE IF "LapTime" \notin df.columns THEN picked
                  ELSE LET read == <<Make("lap_times", Column(driver_laps, "LapTime")),
                                     Make("valid_mask",
                                          [i \in 1..Len(driver_laps) |->
                                              ~isna(driver_laps[i].LapTime)])>>
                       IN  IF "LapNumber" \notin df.columns THEN picked \o read
                           ELSE picked \o read
                                \o <<Make("lap_numbers", Column(valid, "LapNumber")),
                                     Make("lap_times_plot", Column(valid, "LapTime"))>>
                                \o LapTimeChartBody(df, Tail(drvs))

CallLapTimeChart ==
    /\ called' = "create_lap_time_chart"
    /\ param' = NaN
    /\ result' = create_lap_time_chart(laps_df, drivers)
    /\ laps_df' = ArgAfter(<<"laps_df", "drivers">>, <<laps_df, drivers>>,
                           LapTimeChartBody(laps_df, drivers), 1)
    /\ UNCHANGED <<lap_times, telemetry_df, telemetry2, drivers, cache, session_state>>

\* the statements of the loop of create_position_chart: driver_data is a copy
\* of the driver's rows of laps_with_pos (line 361)
RECURSIVE PositionLoopBody(_, _)
PositionLoopBody(laps_with_pos, drvs) ==
    IF drvs = <<>> THEN <<>>
    ELSE <<Filter("driver_data", "laps_with_pos",
                  [i \in 1..Len(laps_with_pos) |-> laps_with_pos[i].Driver = Head(drvs)])>>
         \o PositionLoopBody(laps_with_pos, Tail(drvs))

\* the statements of create_position_chart (lines 332-361): laps_with_pos is a
\* copy of the rows that have a position
PositionChartBody(df, drvs) ==
    IF "Position" \notin df.columns \/ "LapNumber" \notin df.columns THEN <<>>
    ELSE LET with_pos == [i \in 1..Len(df.rows) |-> ~isna(df.rows[i].Position)]
             laps_with_pos == MaskRows(df.rows, with_pos)
         IN  <<Filter("laps_with_pos", "laps_df", with_pos)>>
             \o (IF laps_with_pos = <<>> \/ "Driver" \notin df.columns THEN <<>>
                 ELSE PositionLoopBody(laps_with_pos,
                                       IF drvs # <<>> THEN drvs
                                       ELSE Unique(Column(laps_with_pos, "Driver"), {})))

CallPositionChart ==
    /\ called' = "create_position_chart"
    /\ param' = NaN
    /\ result' = create_position_chart(laps_df, drivers)
    /\ laps_df' = ArgAfter(<<"laps_df", "drivers">>, <<laps_df, drivers>>,
                           PositionChartBody(laps_df, drivers), 1)
    /\ UNCHANGED <<lap_times, telemetry_df, telemetry2, drivers, cache, session_state>>

NextCharts == CallLapTimeChart \/ CallPositionChart

SpecCharts == InitCharts /\ [][NextCharts]_vars

ChartIdx == 1..Len(laps_df.rows)

\* the laps of driver d, and those with a present lap time / position
ChartLaps(d) == {i \in ChartIdx : laps_df.rows[i].Driver = d}
TimedChartLaps(d) == {i \in ChartLaps(d) : ~isna(laps_df.rows[i].LapTime)}
PlacedChartLaps(d) == {i \in ChartLaps(d) : ~isna(laps_df.rows[i].Position)}

\* positions in the list of requested drivers
Requested == {k \in 1..Len(drivers) : TimedChartLaps(drivers[k]) # {}}

\* the k-th smallest element of a finite set of integers
Nth(I, k) == CHOOSE i \in I : Cardinality({j \in I : j <= i}) = k

\* C21: create_lap_time_chart emits one series per requested driver that has a
\* lap with a present lap time, in the order of the request, holding exactly
\* the (lap number, lap time in seconds) pairs of the driver's laps with a
\* present lap time, in input order; other drivers get no series; the colour
\* is the team's colour when the team name is in the static table and unset
\* otherwise (also when the table has no Team column).
C21_LapTimeSeries ==
    called = "create_lap_time_chart" =>
        /\ result.kind = "figure"
        /\ LET traces == result.value
           IN  /\ Len(traces) = Cardinality(Requested)
               /\ \A n \in 1..Len(traces) :
                      LET d == drivers[Nth(Requested, n)]
                          I == TimedChartLaps(d)
                          team == laps_df.rows[Nth(ChartLaps(d), 1)].Team
                      IN  /\ traces[n].name = d
                          /\ Len(traces[n].x) = Cardinality(I)
                          /\ Len(traces[n].y) = Cardinality(I)
                          /\ \A m \in 1..Cardinality(I) :
                                 /\ traces[n].x[m] = laps_df.rows[Nth(I, m)].LapNumber
                                 /\ traces[n].y[m] = laps_df.rows[Nth(I, m)].LapTime
                          /\ traces[n].color =
                                 (IF "Team" \notin laps_df.columns THEN NoColor
                                  ELSE CASE team = "Ferrari" -> "#E8002D"
                                         [] team = "Mercedes" -> "#27F4D2"
                                         [] team = "Sauber" -> "#52E252"
                                         [] OTHER -> NoColor)

\* HAM and VER were requested, VER (Ferrari) has laps 1 and 3 timed and lap 2
\* not: VER's series holds laps 1 and 3 in red, and HAM, without laps, has none
C21_Witness ==
    /\ called = "create_lap_time_chart"
    /\ drivers = <<"HAM", "LEC", "VER">>
    /\ "Team" \in laps_df.columns
    /\ Column(laps_df.rows, "Driver") = <<"VER", "VER", "VER">>
    /\ Column(laps_df.rows, "LapTime") = <<Flt(90), NaN, Flt(90)>>
    /\ laps_df.rows[1].Team = "Ferrari"
    /\ result.kind = "figure"
    /\ Len(result.value) = 1
    /\ result.value[1].x = <<1, 3>>
    /\ result.value[1].color = "#E8002D"

\* the drivers create_position_chart plots: the requested ones, or all when
\* none is requested, that have a lap with a present position
PlottedDrivers ==
    {d \in (IF drivers # <<>> THEN {drivers[k] : k \in 1..Len(drivers)}
            ELSE {laps_df.rows[i].Driver : i \in ChartIdx}) : PlacedChartLaps(d) # {}}

\* C23: create_position_chart emits one series per plotted driver, holding
\* exactly the (lap number, position) pairs of the driver's laps with a
\* present position, in input order, the y values being the raw positions;
\* the inversion is only the 'reversed' autorange of the y axis in the layout.
C23_RawPositionsReversedAxis ==
    called = "create_position_chart" =>
        /\ result.kind = "figure"
        /\ LET traces == result.value.data
           IN  /\ Len(traces) = Cardinality(PlottedDrivers)
               /\ {traces[n].name : n \in 1..Len(traces)} = PlottedDrivers
               /\ \A n \in 1..Len(traces) :
                      LET I == PlacedChartLaps(traces[n].name)
                      IN  /\ Len(traces[n].x) = Cardinality(I)
                          /\ Len(traces[n].y) = Cardinality(I)
                          /\ \A m \in 1..Cardinality(I) :
                                 /\ traces[n].x[m] = laps_df.rows[Nth(I, m)].LapNumber
                                 /\ traces[n].y[m] = laps_df.rows[Nth(I, m)].Position
                                 /\ traces[n].y[m].num > 0
               /\ traces # <<>> => result.value.yaxis_autorange = "reversed"

\* both drivers have laps, one of VER's without a position: two series, VER's
\* holding the raw position 2 of laps 1 and 3, on a reversed y axis
C23_Witness ==
    /\ called = "create_position_chart"
    /\ drivers = <<>>
    /\ Column(laps_df.rows, "Driver") = <<"VER", "VER", "VER">>
    /\ Column(laps_df.rows, "Position") = <<Flt(2), NaN, Flt(2)>>
    /\ result.kind = "figure"
    /\ Len(result.value.data) = 1
    /\ result.value.data[1].x = <<1, 3>>
    /\ result.value.data[1].y = <<Flt(2), Flt(2)>>
    /\ result.value.yaxis_autorange = "reversed"

----------------------------------------------------------------------------
(* get_compound_color and the colours of the three charts *)

\* colors.get(compound, '#808080')
get_compound_color(compound) ==
    CASE compound = "SOFT" -> "#FF0000"
      [] compound = "MEDIUM" -> "#FFD700"
      [] compound = "HARD" -> "#FFFFFF"
      [] compound = "INTERMEDIATE" -> "#00FF00"
      [] compound = "WET" -> "#0000FF"
      [] compound = "UNKNOWN" -> "#808080"
      [] compound = "TEST-UNKNOWN" -> "#FF69B4"
      [] OTHER -> "#808080"

\* the team names of either colour table, and one of neither
ColourTeams ==
    {"Red Bull Racing", "Mercedes", "Ferrari", "McLaren", "Alpine", "Aston Martin", "RB",
     "Haas F1 Team", "Williams", "Sauber", "Kick Sauber", "Cadillac"}

\* the compound enum
CompoundEnum == {"SOFT", "MEDIUM", "HARD", "INTERMEDIATE", "WET", "UNKNOWN", "TEST-UNKNOWN"}

ColourColumns == {"Driver", "LapNumber", "LapTime", "Position", "Team", "Compound"}

\* the laps of one driver of the given team, one compound per lap
ColourTable(team, compounds) ==
    [j \in 1..Len(compounds) |->
        [Driver |-> "VER", LapNumber |-> j, LapTime |-> Flt(90), Position |-> Flt(1),
         Team |-> team, Compound |-> compounds[j]]]

InitColours ==
    /\ lap_times = <<>>
    /\ laps_df \in {[columns |-> ColourColumns, rows |-> ColourTable(team, c)] :
                       team \in ColourTeams, c \in SeqsUpTo(CompoundEnum, MaxColourRows)}
    /\ telemetry_df = NoFrame
    /\ telemetry2 = NoFrame
    /\ drivers = <<"VER">>
    /\ called = "none"
    /\ param = NaN
    /\ result = None
    /\ cache = NoCache
    /\ session_state = NoSessionState

NextColours == CallLapTimeChart \/ CallPositionChart \/ CallTireStrategyChart

SpecColours == InitColours /\ [][NextColours]_vars

\* C29: the charts agree on colours: on a table without a TeamColor column
\* create_lap_time_chart and create_position_chart give a driver's series the
\* same colour (or both none), whatever the team name; and every series of
\* create_tire_strategy_chart has the colour get_compound_color returns for
\* its compound, for each compound of the enum.
C29_ColoursConsistent ==
    /\ called = "create_lap_time_chart" =>
           LET other == create_position_chart(laps_df, drivers).value.data
           IN  \A n \in 1..Len(result.value), m \in 1..Len(other) :
                   result.value[n].name = other[m].name
                       => result.value[n].color = other[m].color
    /\ called = "create_position_chart" =>
           LET other == create_lap_time_chart(laps_df, drivers).value
           IN  \A n \in 1..Len(result.value.data), m \in 1..Len(other) :
                   result.value.data[n].name = other[m].name
                       => result.value.data[n].color = other[m].color
    /\ called = "create_tire_strategy_chart" =>
           \A n \in 1..Len(result.value) :
               result.value[n].color = get_compound_color(result.value[n].compound)

----------------------------------------------------------------------------
(* create_sector_times_chart *)

\* the sector columns the table has, in the order of sector_cols
available_sectors(df) == SelectSeq(sector_cols, LAMBDA c : c \in df.columns)

\* f'Sector {i}'
SectorLabel == <<"Sector 1", "Sector 2", "Sector 3">>

\* the inner loop over enumerate(available_sectors, 1), from position i on:
\* the names and best times appended for one driver
RECURSIVE SectorBars(_, _, _)
SectorBars(driver_laps, available, i) ==
    IF i > Len(available) THEN [x |-> <<>>, y |-> <<>>]
    ELSE LET best_time == SeriesMin(Column(driver_laps, available[i]))
             rest == SectorBars(driver_laps, available, i + 1)
         IN  IF ~isna(best_time)
             THEN [x |-> <<SectorLabel[i]>> \o rest.x, y |-> <<best_time>> \o rest.y]
             ELSE rest

\* mutant: a sector without a valid time is reported as zero
RECURSIVE Mut_sector_bars_zero_fill(_, _, _)
Mut_sector_bars_zero_fill(driver_laps, available, i) ==
    IF i > Len(available) THEN [x |-> <<>>, y |-> <<>>]
    ELSE LET best_time == SeriesMin(Column(driver_laps, available[i]))
             rest == Mut_sector_bars_zero_fill(driver_laps, available, i + 1)
         IN  [x |-> <<SectorLabel[i]>> \o rest.x,
              y |-> <<IF isna(best_time) THEN Flt(0) ELSE best_time>> \o rest.y]

RECURSIVE SectorTraces(_, _)
SectorTraces(df, drvs) ==
    IF drvs = <<>> THEN <<>>
    ELSE LET driver_laps == SelectSeq(df.rows, LAMBDA r : r.Driver = Head(drvs))
             bars == SectorBars(driver_laps, available_sectors(df), 1)
         IN  IF driver_laps = <<>> \/ bars.y = <<>> THEN SectorTraces(df, Tail(drvs))
             ELSE <<[name |-> Head(drvs), x |-> bars.x, y |-> bars.y]>>
                      \o SectorTraces(df, Tail(drvs))

RECURSIVE Mut_sector_traces_zero_fill(_, _)
Mut_sector_traces_zero_fill(df, drvs) ==
    IF drvs = <<>> THEN <<>>
    ELSE LET driver_laps == SelectSeq(df.rows, LAMBDA r : r.Driver = Head(drvs))
             bars == Mut_sector_bars_zero_fill(driver_laps, available_sectors(df), 1)
         IN  IF driver_laps = <<>> \/ bars.y = <<>>
             THEN Mut_sector_traces_zero_fill(df, Tail(drvs))
             ELSE <<[name |-> Head(drvs), x |-> bars.x, y |-> bars.y]>>
                      \o Mut_sector_traces_zero_fill(df, Tail(drvs))

Mut_sector_chart_zero_fill(df, drvs) ==
    IF available_sectors(df) = <<>> THEN Figure(<<>>)
    ELSE IF drvs # <<>> /\ "Driver" \notin df.columns THEN Raise("KeyError")
         ELSE Figure(Mut_sector_traces_zero_fill(df, drvs))

create_sector_times_chart(df, drvs) ==
    IF available_sectors(df) = <<>> THEN Figure(<<>>)
    ELSE IF drvs # <<>> /\ "Driver" \notin df.columns THEN Raise("KeyError")
         ELSE Figure(SectorTraces(df, drvs))

----------------------------------------------------------------------------
(* create_sector_times_chart on the laps of two drivers *)

\* each sector has times of its own, so that a value tells its column
SectorChartCells ==
    [Driver : {"VER", "HAM"}, Sector1Time : {Flt(30), Flt(31), NaN},
     Sector2Time : {Flt(40), NaN}, Sector3Time : {Flt(50), NaN}]

SectorChartColumnSets == {{"Driver"} \cup S : S \in SUBSET SectorNames}

InitSectorChart ==
    /\ lap_times = <<>>
    /\ laps_df \in {[columns |-> cols,
                     rows |-> [j \in 1..Len(c) |-> Restrict(c[j], cols)]] :
                       cols \in SectorChartColumnSets,
                       c \in SeqsUpTo(SectorChartCells, MaxSectorChartRows)}
    /\ telemetry_df = NoFrame
    /\ telemetry2 = NoFrame
    /\ drivers = <<"HAM", "LEC", "VER">>
    /\ called = "none"
    /\ param = NaN
    /\ result = None
    /\ cache = NoCache
    /\ session_state = NoSessionState

\* the statements of create_sector_times_chart (line 420), driver by driver:
\* driver_laps is the selection of the driver's rows, a new table
RECURSIVE SectorTimesChartBody(_, _)
SectorTimesChartBody(df, drvs) ==
    IF drvs = <<>> \/ available_sectors(df) = <<>> \/ "Driver" \notin df.columns THEN <<>>
    ELSE <<Filter("driver_laps", "laps_df",
                  [i \in 1..Len(df.rows) |-> df.rows[i].Driver = Head(drvs)])>>
         \o SectorTimesChartBody(df, Tail(drvs))

CallSectorTimesChart ==
    /\ called' = "create_sector_times_chart"
    /\ param' = NaN
    /\ result' = create_sector_times_chart(laps_df, drivers)
    /\ laps_df' = ArgAfter(<<"laps_df", "drivers">>, <<laps_df, drivers>>,
                           SectorTimesChartBody(laps_df, drivers), 1)
    /\ UNCHANGED <<lap_times, telemetry_df, telemetry2, drivers, cache, session_state>>

NextSectorChart == CallSectorTimesChart

SpecSectorChart == InitSectorChart /\ [][NextSectorChart]_vars

\* the laps of driver d with a valid time in sector column s
SectorChartValid(d, s) ==
    IF s \in laps_df.columns
    THEN {i \in 1..Len(laps_df.rows) :
             laps_df.rows[i].Driver = d /\ ~isna(laps_df.rows[i][s])}
    ELSE {}

\* the sector numbers (1..3) whose column holds a valid time of driver d
SectorsOf(d) == {k \in 1..3 : SectorChartValid(d, sector_cols[k]) # {}}

\* positions in the request of the drivers with a valid sector time
SectorRequested == {k \in 1..Len(drivers) : SectorsOf(drivers[k]) # {}}

\* C22: create_sector_times_chart emits one series per requested driver that
\* has a valid time in some available sector column; the series holds, in
\* column order, the minimum valid time of each available sector column in
\* which the driver has one; a sector without a valid time of the driver is
\* left out (no zero, no NaN), and a driver without any gets no series.
C22_BestSectorTimes ==
    called = "create_sector_times_chart" =>
        /\ result.kind = "figure"
        /\ LET traces == result.value
           IN  /\ Len(traces) = Cardinality(SectorRequested)
               /\ \A n \in 1..Len(traces) :
                      LET d == drivers[Nth(SectorRequested, n)]
                          K == SectorsOf(d)
                      IN  /\ traces[n].name = d
                          /\ Len(traces[n].y) = Cardinality(K)
                          /\ Len(traces[n].x) = Cardinality(K)
                          /\ \A m \in 1..Cardinality(K) :
                                 LET s == sector_cols[Nth(K, m)]
                                     I == SectorChartValid(d, s)
                                 IN  /\ \E i \in I : traces[n].y[m] = laps_df.rows[i][s]
                                     /\ \A i \in I :
                                            FLe(traces[n].y[m], laps_df.rows[i][s])

\* VER has the sector-1 times 31 and 30 and no valid sector-2 time, sector 3
\* is missing from the table: VER's series is the one value 30
C22_Witness ==
    /\ called = "create_sector_times_chart"
    /\ laps_df.columns = {"Driver", "Sector1Time", "Sector2Time"}
    /\ Column(laps_df.rows, "Driver") = <<"VER", "VER">>
    /\ Column(laps_df.rows, "Sector1Time") = <<Flt(31), Flt(30)>>
    /\ Column(laps_df.rows, "Sector2Time") = <<NaN, NaN>>
    /\ result.kind = "figure"
    /\ Len(result.value) = 1
    /\ result.value[1].name = "VER"
    /\ result.value[1].y = <<Flt(30)>>

\* C28: the label 'Sector k' carries the best time of column Sector<k>Time:
\* in every series the m-th value, which comes from the m-th sector column
\* holding a valid time of the driver, is labelled with that column's number,
\* whichever of the three sector columns the table has.
C28_SectorLabelMatchesColumn ==
    called = "create_sector_times_chart" =>
        /\ result.kind = "figure"
        /\ \A n \in 1..Len(result.value) :
               LET K == SectorsOf(result.value[n].name)
               IN  /\ Len(result.value[n].x) = Cardinality(K)
                   /\ \A m \in 1..Len(result.value[n].x) :
                          result.value[n].x[m] = SectorLabel[Nth(K, m)]

----------------------------------------------------------------------------
(* calculate_lap_time_delta *)

\* a float returned by a call
Float(x) == [kind |-> "float", value |-> x]

calculate_lap_time_delta(lap1_time, lap2_time) == Float(FSub(lap1_time, lap2_time))

\* the two times are floats, values that no statement can change: the call
\* has no table or series to leave changed
CallLapTimeDelta ==
    \E a, b \in {Flt(90), NaN} :
        /\ called' = "calculate_lap_time_delta"
        /\ param' = [lap1_time |-> a, lap2_time |-> b]
        /\ result' = calculate_lap_time_delta(a, b)
        /\ UNCHANGED <<lap_times, laps_df, telemetry_df, telemetry2, drivers, cache,
                       session_state>>

----------------------------------------------------------------------------
(* create_speed_trace_chart.  telemetry_dict is the sequence of its items,  *)
(* [driver, telemetry], in insertion order.                                 *)

RECURSIVE SpeedTraces(_)
SpeedTraces(items) ==
    IF items = <<>> THEN <<>>
    ELSE LET telemetry == Head(items).telemetry
         IN  IF IsEmpty(telemetry) \/ "Distance" \notin telemetry.columns
                \/ "Speed" \notin telemetry.columns
             THEN SpeedTraces(Tail(items))
             ELSE <<[name |-> Head(items).driver,
                     x |-> Column(telemetry.rows, "Distance"),
                     y |-> Column(telemetry.rows, "Speed")]>>
                  \o SpeedTraces(Tail(items))

create_speed_trace_chart(telemetry_dict) == Figure(SpeedTraces(telemetry_dict))

\* the statements of create_speed_trace_chart (lines 114-120): the loop binds
\* telemetry to each table of the dictionary in turn, and the two columns
\* plotted are read of it
RECURSIVE SpeedTraceBody(_)
SpeedTraceBody(items) ==
    IF items = <<>> THEN <<>>
    ELSE LET telemetry == Head(items).telemetry
         IN  <<Alias("telemetry", Head(items).driver)>>
             \o (IF IsEmpty(telemetry) \/ "Distance" \notin telemetry.columns
                    \/ "Speed" \notin telemetry.columns
                 THEN <<>>
                 ELSE <<Make("x", Column(telemetry.rows, "Distance")),
                        Make("y", Column(telemetry.rows, "Speed"))>>)
             \o SpeedTraceBody(Tail(items))

\* the dictionary the pages build: one trace per driver
TelemetryDict(t1, t2) ==
    <<[driver |-> "VER", telemetry |-> t1], [driver |-> "HAM", telemetry |-> t2]>>

CallSpeedTraceChart ==
    LET telemetry_dict == TelemetryDict(telemetry_df, telemetry2)
    IN  /\ called' = "create_speed_trace_chart"
        /\ param' = NaN
        /\ result' = create_speed_trace_chart(telemetry_dict)
        /\ telemetry_df' = ArgAfter(<<"VER", "HAM">>, <<telemetry_df, telemetry2>>,
                                    SpeedTraceBody(telemetry_dict), 1)
        /\ telemetry2' = ArgAfter(<<"VER", "HAM">>, <<telemetry_df, telemetry2>>,
                                  SpeedTraceBody(telemetry_dict), 2)
        /\ UNCHANGED <<lap_times, laps_df, drivers, cache, session_state>>

----------------------------------------------------------------------------
(* create_throttle_brake_chart, create_gear_chart and create_speed_heatmap *)

\* the trace of one column of the telemetry along the distance
InputTrace(telemetry, name, column) ==
    IF column \in telemetry.columns
    THEN <<[name |-> name,
            x |-> Column(telemetry.rows, "Distance"),
            y |-> Column(telemetry.rows, column)]>>
    ELSE <<>>

create_throttle_brake_chart(telemetry) ==
    IF "Distance" \notin telemetry.columns THEN Figure(<<>>)
    ELSE Figure(InputTrace(telemetry, "Throttle", "Throttle")
                \o InputTrace(telemetry, "Brake", "Brake"))

\* the columns a chart reads of the telemetry, each a series of its own
RECURSIVE ReadColumns(_, _)
ReadColumns(telemetry, columns) ==
    IF columns = <<>> THEN <<>>
    ELSE <<Make(Head(columns), Column(telemetry.rows, Head(columns)))>>
         \o ReadColumns(telemetry, Tail(columns))

\* the statements of create_throttle_brake_chart (lines 152-172)
ThrottleBrakeBody(telemetry) ==
    IF "Distance" \notin telemetry.columns THEN <<>>
    ELSE ReadColumns(telemetry,
                     SelectSeq(<<"Throttle", "Brake">>, LAMBDA c : c \in telemetry.columns))

CallThrottleBrakeChart ==
    /\ called' = "create_throttle_brake_chart"
    /\ param' = NaN
    /\ result' = create_throttle_brake_chart(telemetry_df)
    /\ telemetry_df' = ArgAfter(<<"telemetry">>, <<telemetry_df>>,
                                ThrottleBrakeBody(telemetry_df), 1)
    /\ UNCHANGED <<lap_times, laps_df, telemetry2, drivers, cache, session_state>>

create_gear_chart(telemetry) ==
    IF "Distance" \notin telemetry.columns \/ "nGear" \notin telemetry.columns
    THEN Figure(<<>>)
    ELSE Figure(InputTrace(telemetry, "Gear", "nGear"))

\* the statements of create_gear_chart (lines 207-212)
GearBody(telemetry) ==
    IF "Distance" \notin telemetry.columns \/ "nGear" \notin telemetry.columns THEN <<>>
    ELSE ReadColumns(telemetry, <<"Distance", "nGear">>)

CallGearChart ==
    /\ called' = "create_gear_chart"
    /\ param' = NaN
    /\ result' = create_gear_chart(telemetry_df)
    /\ telemetry_df' = ArgAfter(<<"telemetry">>, <<telemetry_df>>,
                                GearBody(telemetry_df), 1)
    /\ UNCHANGED <<lap_times, laps_df, telemetry2, drivers, cache, session_state>>

HeatmapColumns == {"X", "Y", "Speed"}

create_speed_heatmap(telemetry) ==
    IF ~(HeatmapColumns \subseteq telemetry.columns) THEN Figure(<<>>)
    ELSE Figure(<<[x |-> Column(telemetry.rows, "X"),
                   y |-> Column(telemetry.rows, "Y"),
                   color |-> Column(telemetry.rows, "Speed")]>>)

\* the statements of create_speed_heatmap (lines 467-476)
SpeedHeatmapBody(telemetry) ==
    IF ~(HeatmapColumns \subseteq telemetry.columns) THEN <<>>
    ELSE ReadColumns(telemetry, <<"X", "Y", "Speed">>)

CallSpeedHeatmap ==
    /\ called' = "create_speed_heatmap"
    /\ param' = NaN
    /\ result' = create_speed_heatmap(telemetry_df)
    /\ telemetry_df' = ArgAfter(<<"telemetry">>, <<telemetry_df>>,
                                SpeedHeatmapBody(telemetry_df), 1)
    /\ UNCHANGED <<lap_times, laps_df, telemetry2, drivers, cache, session_state>>

----------------------------------------------------------------------------
(* create_lap_time_distribution *)

\* one violin per driver with laps, of the driver's present lap times
RECURSIVE DistributionTraces(_, _)
DistributionTraces(df, drvs) ==
    IF drvs = <<>> THEN <<>>
    ELSE LET driver_laps == SelectSeq(df.rows, LAMBDA r : r.Driver = Head(drvs))
         IN  IF driver_laps = <<>> \/ "LapTime" \notin df.columns
             THEN DistributionTraces(df, Tail(drvs))
             ELSE <<[name |-> Head(drvs), y |-> dropna(Column(driver_laps, "LapTime"))]>>
                  \o DistributionTraces(df, Tail(drvs))

create_lap_time_distribution(df, drvs) ==
    IF drvs # <<>> /\ "Driver" \notin df.columns THEN Raise("KeyError")
    ELSE Figure(DistributionTraces(df, drvs))

\* the statements of create_lap_time_distribution (lines 510-516), driver by
\* driver: driver_laps is the selection of the driver's rows, a new table, and
\* lap_times the present values of its LapTime column
RECURSIVE LapTimeDistributionBody(_, _)
LapTimeDistributionBody(df, drvs) ==
    IF drvs = <<>> \/ "Driver" \notin df.columns THEN <<>>
    ELSE LET of_driver == [i \in 1..Len(df.rows) |-> df.rows[i].Driver = Head(drvs)]
             driver_laps == MaskRows(df.rows, of_driver)
         IN  <<Filter("driver_laps", "laps_df", of_driver)>>
             \o (IF driver_laps = <<>> \/ "LapTime" \notin df.columns THEN <<>>
                 ELSE <<Make("lap_times", dropna(Column(driver_laps, "LapTime")))>>)
             \o LapTimeDistributionBody(df, Tail(drvs))

CallLapTimeDistribution ==
    /\ called' = "create_lap_time_distribution"
    /\ param' = NaN
    /\ result' = create_lap_time_distribution(laps_df, drivers)
    /\ laps_df' = ArgAfter(<<"laps_df", "drivers">>, <<laps_df, drivers>>,
                           LapTimeDistributionBody(laps_df, drivers), 1)
    /\ UNCHANGED <<lap_times, telemetry_df, telemetry2, drivers, cache, session_state>>

----------------------------------------------------------------------------
(* Every function of analyse.py and visualise.py, called in any order on   *)
(* one lap table, its lap-time series and two telemetry traces             *)

FrameColumns ==
    {"Driver", "LapNumber", "Position", "LapTime", "Compound", "TyreLife",
     "PitInTime", "PitOutTime", "Sector1Time", "Sector2Time", "Sector3Time"}

FrameCells ==
    [Driver : {"VER", "HAM"}, LapTime : {Flt(90), NaN}, Compound : {"SOFT", "MEDIUM"},
     PitInTime : {Flt(100), NaN}]

\* row j of the table: VER runs first and HAM second; the lap number is the
\* driver's lap count so far
FrameTable(cells) ==
    [j \in 1..Len(cells) |->
        LET lap == Cardinality({k \in 1..j : cells[k].Driver = cells[j].Driver})
        IN  [Driver |-> cells[j].Driver,
             LapNumber |-> lap,
             Position |-> IF cells[j].Driver = "VER" THEN Flt(1) ELSE Flt(2),
             LapTime |-> cells[j].LapTime,
             Compound |-> cells[j].Compound,
             TyreLife |-> Flt(lap),
             PitInTime |-> cells[j].PitInTime,
             PitOutTime |-> Flt(120),
             Sector1Time |-> Flt(29),
             Sector2Time |-> Flt(30),
             Sector3Time |-> cells[j].LapTime]]

FrameTelemetryColumns == {"Distance", "Speed", "Brake", "Throttle", "nGear", "X", "Y"}

\* sample i of a trace: the car brakes
FrameSample(i, v) ==
    [Distance |-> Flt(100 * i), Speed |-> v, Brake |-> Flt(100), Throttle |-> Flt(0),
     nGear |-> Flt(4), X |-> Flt(i), Y |-> Flt(0)]

FrameSpeeds == {Flt(200), NaN}

\* a trace of no sample or of one
FrameTraces ==
    {[columns |-> FrameTelemetryColumns,
      rows |-> [i \in 1..Len(v) |-> FrameSample(i, v[i])]] : v \in SeqsUpTo(FrameSpeeds, 1)}

InitFrame ==
    /\ laps_df \in {[columns |-> FrameColumns, rows |-> FrameTable(c)] :
                       c \in SeqsUpTo(FrameCells, MaxFrameRows)}
    /\ lap_times = Column(laps_df.rows, "LapTime")
    /\ telemetry_df \in FrameTraces
    /\ telemetry2 = [columns |-> FrameTelemetryColumns, rows |-> <<FrameSample(1, Flt(180))>>]
    /\ drivers = <<"VER", "HAM">>
    /\ called = "none"
    /\ param = NaN
    /\ result = None
    /\ cache = NoCache
    /\ session_state = NoSessionState

NextFrame ==
    \/ CallLapTimeDelta
    \/ CallPaceConsistency
    \/ CallTireDegradation
    \/ CallIdentifyOutliers
    \/ CallSectorAnalysis
    \/ CallSpeedTrapStats
    \/ CallBrakePoints
    \/ CallTelemetryDelta
    \/ CallPitStopDelta
    \/ CallRacePace
    \/ CallOvertakes
    \/ CallQualifyingProgression
    \/ CallGapToLeader
    \/ CallLapTimeChart
    \/ CallSpeedTraceChart
    \/ CallThrottleBrakeChart
    \/ CallGearChart
    \/ CallTireStrategyChart
    \/ CallPositionChart
    \/ CallSectorTimesChart
    \/ CallSpeedHeatmap
    \/ CallLapTimeDistribution

SpecFrame == InitFrame /\ [][NextFrame]_vars

\* C17: no call mutates its input: every call of a function of analyse.py or
\* visualise.py leaves the lap table, the lap-time series and the two
\* telemetry traces it was given with the same columns (no added
\* CompoundChange, Stint, GapToLeader or PitDuration), the same rows and the
\* same values, so the same holds after any sequence of calls.  What a call
\* leaves of its arguments is what the statements of its body leave of the
\* objects the arguments are.
C17_InputsNeverMutated ==
    [][/\ laps_df' = laps_df
       /\ telemetry_df' = telemetry_df
       /\ telemetry2' = telemetry2
       /\ lap_times' = lap_times]_vars

\* a call of calculate_gap_to_leader has assigned the GapToLeader column on
\* its lap_data and returned a table with rows, and the table it was given
\* still has its eleven columns
C17_Witness ==
    /\ called = "calculate_gap_to_leader"
    /\ result.kind = "frame"
    /\ result.value.rows # <<>>
    /\ "GapToLeader" \in result.value.columns
    /\ "GapToLeader" \in Local(<<"laps_df">>, <<laps_df>>,
                               GapToLeaderBody(laps_df), "lap_data").columns
    /\ laps_df.rows # <<>>
    /\ laps_df.columns = FrameColumns
    /\ \A i \in 1..Len(laps_df.rows) : DOMAIN laps_df.rows[i] = FrameColumns

----------------------------------------------------------------------------
(* data_loader: the session source behind st.cache_data(ttl=3600) *)

\* st.cache_data keys an entry by the function and by the arguments whose
\* parameter name does not begin with an underscore
CacheKey(func, hashed_args) == [func |-> func, args |-> hashed_args]

\* the cache with the value stored under the key
Store(c, key, v) == [k \in DOMAIN c \cup {key} |-> IF k = key THEN v ELSE c[k]]

\* the session object fastf1.get_session(year, gp, session_type) gives once loaded
Session(args) == [kind |-> "session", value |-> args]

\* session.name
SessionName(session) ==
    CASE session.value.session_type = "R" -> "Race"
      [] session.value.session_type = "Q" -> "Qualifying"
      [] OTHER -> session.value.session_type

\* session.event of the grands prix of the model
SessionEvent(session) ==
    IF session.value.gp = "Monaco Grand Prix"
    THEN [EventName |-> "Monaco Grand Prix", Location |-> "Monaco", Country |-> "Monaco",
          EventDate |-> "2025-05-25"]
    ELSE [EventName |-> "Italian Grand Prix", Location |-> "Monza", Country |-> "Italy",
          EventDate |-> "2026-09-06"]

\* len(session.laps) and sorted(session.drivers)
SessionTotalLaps(session) == IF session.value.gp = "Monaco Grand Prix" THEN 78 ELSE 53
SessionDrivers(session) == <<"HAM", "VER">>

\* data read from a session: the session it belongs to and what selects it
SessionData(what, session, selector) ==
    [kind |-> what, value |-> [session |-> session.value, selector |-> selector]]

\* mutant: the three arguments are part of the cache key
Mut_load_session_hashes_args(c, args, loaded) ==
    LET key == CacheKey("load_session", <<args.year, args.gp, args.session_type>>)
    IN  IF key \in DOMAIN c THEN [value |-> c[key], cache |-> c]
        ELSE [value |-> loaded, cache |-> Store(c, key, loaded)]

\* load_session(_year, _gp, _session_type): no argument is hashed, so one entry
\* serves every call.  loaded is what fastf1 gives for the arguments when the
\* body runs: the session, or None when get_session / load raised.
load_session(c, args, loaded) ==
    LET key == CacheKey("load_session", <<>>)
    IN  IF key \in DOMAIN c THEN [value |-> c[key], cache |-> c]
        ELSE [value |-> loaded, cache |-> Store(c, key, loaded)]

\* the body of get_session_info; raises tells whether len(session.laps) or
\* session.drivers raised (data of the session not loaded): nothing catches it
SessionInfo(session, raises) ==
    IF session = None THEN EmptyDict
    ELSE IF raises THEN Raise("DataNotLoadedError")
    ELSE Dict([event_name |-> SessionEvent(session).EventName,
               location |-> SessionEvent(session).Location,
               country |-> SessionEvent(session).Country,
               date |-> SessionEvent(session).EventDate,
               session_name |-> SessionName(session),
               total_laps |-> SessionTotalLaps(session),
               drivers |-> SessionDrivers(session)])

\* a call that raises stores nothing
get_session_info(c, session, raises) ==
    LET key == CacheKey("get_session_info", <<>>)
        info == SessionInfo(session, raises)
    IN  IF key \in DOMAIN c THEN [value |-> c[key], cache |-> c]
        ELSE IF info.kind = "raise" THEN [value |-> info, cache |-> c]
        ELSE [value |-> info, cache |-> Store(c, key, info)]

\* the body of get_available_years: 2018 up to the year of the clock
AvailableYears(current_year) == [i \in 1..(current_year - 2018 + 1) |-> 2018 + i - 1]

get_available_years(c, current_year) ==
    LET key == CacheKey("get_available_years", <<>>)
        years == AvailableYears(current_year)
    IN  IF key \in DOMAIN c THEN [value |-> c[key], cache |-> c]
        ELSE [value |-> years, cache |-> Store(c, key, years)]

\* the schedule fastf1.get_event_schedule(year) gives
Schedule(year) == [kind |-> "schedule", value |-> year]

\* get_event_schedule: fetched is the schedule, or the empty frame returned
\* when fastf1 raised; the year is part of the cache key
get_event_schedule(c, year, fetched) ==
    LET key == CacheKey("get_event_schedule", <<year>>)
    IN  IF key \in DOMAIN c THEN [value |-> c[key], cache |-> c]
        ELSE [value |-> fetched, cache |-> Store(c, key, fetched)]

\* the body of get_driver_info; raises tells whether session.get_driver raised
\* (a driver code the session does not know), which gives the empty dictionary
DriverInfo(session, driver_code, raises) ==
    IF session = None THEN EmptyDict
    ELSE IF raises THEN EmptyDict
    ELSE LET driver == [f \in {"Abbreviation", "FullName", "TeamName", "TeamColor",
                                "DriverNumber"} |->
                           SessionData("driver", session, <<driver_code, f>>)]
         IN  Dict([abbreviation |-> driver["Abbreviation"],
                   full_name |-> driver["FullName"],
                   team |-> driver["TeamName"],
                   team_color |-> driver["TeamColor"],
                   driver_number |-> driver["DriverNumber"]])

get_driver_info(c, session, driver_code, raises) ==
    LET key == CacheKey("get_driver_info", <<driver_code>>)
        info == DriverInfo(session, driver_code, raises)
    IN  IF key \in DOMAIN c THEN [value |-> c[key], cache |-> c]
        ELSE [value |-> info, cache |-> Store(c, key, info)]

\* the body of get_driver_laps; raises tells whether session.laps raised (lap
\* data not loaded), which gives the empty frame after the warning
DriverLaps(session, driver_code, raises) ==
    IF session = None THEN EmptyFrame
    ELSE IF raises THEN EmptyFrame
    ELSE SessionData("laps", session, <<driver_code>>)

get_driver_laps(c, session, driver_code, raises) ==
    LET key == CacheKey("get_driver_laps", <<driver_code>>)
        laps == DriverLaps(session, driver_code, raises)
    IN  IF key \in DOMAIN c THEN [value |-> c[key], cache |-> c]
        ELSE [value |-> laps, cache |-> Store(c, key, laps)]

\* laps.empty: the empty frame, or the laps of a driver who drove none
LapsEmpty(laps) ==
    IF laps = EmptyFrame THEN TRUE
    ELSE \A i \in 1..Len(SessionDrivers(Session(laps.value.session))) :
             SessionDrivers(Session(laps.value.session))[i] # laps.value.selector[1]

\* laps.pick_fastest() of the laps get_driver_laps returned
PickFastest(laps) == [kind |-> "fastest_lap", value |-> laps.value]

\* get_fastest_lap after its call of get_driver_laps: None for empty laps and
\* when pick_fastest raised
FastestLap(laps, raises) ==
    IF LapsEmpty(laps) THEN None
    ELSE IF raises THEN None
    ELSE PickFastest(laps)

\* the entry of get_fastest_lap, stored once the body has returned; the entry
\* of the inner get_driver_laps call has been stored by then
get_fastest_lap(c, laps, driver_code, raises) ==
    LET key == CacheKey("get_fastest_lap", <<driver_code>>)
        fastest == FastestLap(laps, raises)
    IN  [value |-> fastest, cache |-> Store(c, key, fastest)]

\* the body of get_lap_telemetry; raises tells whether the lap lookup or
\* get_telemetry() raised (a lap the driver did not drive, data not loaded)
LapTelemetry(session, driver_code, lap_number, raises) ==
    IF session = None THEN EmptyFrame
    ELSE IF raises THEN EmptyFrame
    ELSE SessionData("telemetry", session, <<driver_code, lap_number>>)

get_lap_telemetry(c, session, driver_code, lap_number, raises) ==
    LET key == CacheKey("get_lap_telemetry", <<driver_code, lap_number>>)
        telemetry == LapTelemetry(session, driver_code, lap_number, raises)
    IN  IF key \in DOMAIN c THEN [value |-> c[key], cache |-> c]
        ELSE [value |-> telemetry, cache |-> Store(c, key, telemetry)]

\* the body of get_race_results; raises tells whether session.results or the
\* selection of its seven columns raised
RaceResults(session, raises) ==
    IF session = None THEN EmptyFrame
    ELSE IF SessionName(session) # "Race" THEN EmptyFrame
    ELSE IF raises THEN EmptyFrame
    ELSE SessionData("results", session, <<>>)

get_race_results(c, session, raises) ==
    LET key == CacheKey("get_race_results", <<>>)
        results == RaceResults(session, raises)
    IN  IF key \in DOMAIN c THEN [value |-> c[key], cache |-> c]
        ELSE [value |-> results, cache |-> Store(c, key, results)]

\* the body of get_weather_data; raises tells whether session.weather_data raised
WeatherData(session, raises) ==
    IF session = None THEN EmptyFrame
    ELSE IF raises THEN EmptyFrame
    ELSE SessionData("weather", session, <<>>)

get_weather_data(c, session, raises) ==
    LET key == CacheKey("get_weather_data", <<>>)
        weather == WeatherData(session, raises)
    IN  IF key \in DOMAIN c THEN [value |-> c[key], cache |-> c]
        ELSE [value |-> weather, cache |-> Store(c, key, weather)]

----------------------------------------------------------------------------
(* calls of the data_loader functions, in any order *)

\* the sessions a user can ask for
SessionArgs ==
    {[year |-> 2025, gp |-> "Monaco Grand Prix", session_type |-> "R"],
     [year |-> 2026, gp |-> "Italian Grand Prix", session_type |-> "Q"]}

\* the years the clock can show when a body reads it
ClockYears == {2025, 2026}

\* the driver codes asked for: BOT drove no lap in either session
LoaderDrivers == {"VER", "BOT"}

Sessions == {Session(a) : a \in SessionArgs}

\* get_fastest_lap has called get_driver_laps and not returned yet
InFastestLap == called = "get_fastest_lap.get_driver_laps"

\* the cache does not hold more than MaxCacheEntries entries at once
Room(c) == Cardinality(DOMAIN c) <= MaxCacheEntries

InitLoader ==
    /\ lap_times = <<>>
    /\ laps_df = NoFrame
    /\ telemetry_df = NoFrame
    /\ telemetry2 = NoFrame
    /\ drivers = <<>>
    /\ called = "none"
    /\ param = NaN
    /\ result = None
    /\ cache = NoCache
    /\ session_state = NoSessionState

CallLoadSession ==
    \E args \in SessionArgs : \E loaded \in {Session(args), None} :
        LET r == load_session(cache, args, loaded)
        IN  /\ ~InFastestLap
            /\ Room(r.cache)
            /\ called' = "load_session"
            /\ param' = args
            /\ result' = r.value
            /\ cache' = r.cache
            /\ UNCHANGED <<lap_times, laps_df, telemetry_df, telemetry2, drivers, session_state>>

CallGetAvailableYears ==
    \E current_year \in ClockYears :
        LET r == get_available_years(cache, current_year)
        IN  /\ ~InFastestLap
            /\ Room(r.cache)
            /\ called' = "get_available_years"
            /\ param' = NaN
            /\ result' = r.value
            /\ cache' = r.cache
            /\ UNCHANGED <<lap_times, laps_df, telemetry_df, telemetry2, drivers, session_state>>

CallGetEventSchedule ==
    \E year \in ClockYears : \E fetched \in {Schedule(year), EmptyFrame} :
        LET r == get_event_schedule(cache, year, fetched)
        IN  /\ ~InFastestLap
            /\ Room(r.cache)
            /\ called' = "get_event_schedule"
            /\ param' = [year |-> year]
            /\ result' = r.value
            /\ cache' = r.cache
            /\ UNCHANGED <<lap_times, laps_df, telemetry_df, telemetry2, drivers, session_state>>

CallGetSessionInfo ==
    \E session \in Sessions \cup {None}, raises \in BOOLEAN :
        LET r == get_session_info(cache, session, raises)
        IN  /\ ~InFastestLap
            /\ Room(r.cache)
            /\ called' = "get_session_info"
            /\ param' = [session |-> session]
            /\ result' = r.value
            /\ cache' = r.cache
            /\ UNCHANGED <<lap_times, laps_df, telemetry_df, telemetry2, drivers, session_state>>

CallGetDriverInfo ==
    \E session \in Sessions, raises \in BOOLEAN :
        LET r == get_driver_info(cache, session, "VER", raises)
        IN  /\ ~InFastestLap
            /\ Room(r.cache)
            /\ called' = "get_driver_info"
            /\ param' = [session |-> session, driver_code |-> "VER"]
            /\ result' = r.value
            /\ cache' = r.cache
            /\ UNCHANGED <<lap_times, laps_df, telemetry_df, telemetry2, drivers, session_state>>

CallGetDriverLaps ==
    \E session \in Sessions, d \in LoaderDrivers, raises \in BOOLEAN :
        LET r == get_driver_laps(cache, session, d, raises)
        IN  /\ ~InFastestLap
            /\ Room(r.cache)
            /\ called' = "get_driver_laps"
            /\ param' = [session |-> session, driver_code |-> d]
            /\ result' = r.value
            /\ cache' = r.cache
            /\ UNCHANGED <<lap_times, laps_df, telemetry_df, telemetry2, drivers, session_state>>

\* get_fastest_lap up to the return of its get_driver_laps call: a cached
\* entry is returned at once, otherwise the inner call stores its own entry
\* before the body goes on
CallGetFastestLap ==
    \E session \in Sessions, d \in LoaderDrivers, raises \in BOOLEAN :
        LET key == CacheKey("get_fastest_lap", <<d>>)
            inner == get_driver_laps(cache, session, d, raises)
        IN  /\ ~InFastestLap
            /\ param' = [session |-> session, driver_code |-> d]
            /\ IF key \in DOMAIN cache
               THEN /\ called' = "get_fastest_lap"
                    /\ result' = cache[key]
                    /\ cache' = cache
               ELSE /\ Cardinality(DOMAIN inner.cache) < MaxCacheEntries
                    /\ called' = "get_fastest_lap.get_driver_laps"
                    /\ result' = inner.value
                    /\ cache' = inner.cache
            /\ UNCHANGED <<lap_times, laps_df, telemetry_df, telemetry2, drivers, session_state>>

\* the rest of get_fastest_lap: the fastest of the laps the inner call
\* returned, stored under the key of get_fastest_lap
ReturnFastestLap ==
    \E raises \in BOOLEAN :
        LET r == get_fastest_lap(cache, result, param.driver_code, raises)
        IN  /\ InFastestLap
            /\ called' = "get_fastest_lap"
            /\ result' = r.value
            /\ cache' = r.cache
            /\ UNCHANGED <<lap_times, laps_df, telemetry_df, telemetry2, drivers, session_state,
                           param>>

CallGetLapTelemetry ==
    \E session \in Sessions, raises \in BOOLEAN :
        LET r == get_lap_telemetry(cache, session, "VER", 1, raises)
        IN  /\ ~InFastestLap
            /\ Room(r.cache)
            /\ called' = "get_lap_telemetry"
            /\ param' = [session |-> session, driver_code |-> "VER", lap_number |-> 1]
            /\ result' = r.value
            /\ cache' = r.cache
            /\ UNCHANGED <<lap_times, laps_df, telemetry_df, telemetry2, drivers, session_state>>

CallGetRaceResults ==
    \E session \in Sessions, raises \in BOOLEAN :
        LET r == get_race_results(cache, session, raises)
        IN  /\ ~InFastestLap
            /\ Room(r.cache)
            /\ called' = "get_race_results"
            /\ param' = [session |-> session]
            /\ result' = r.value
            /\ cache' = r.cache
            /\ UNCHANGED <<lap_times, laps_df, telemetry_df, telemetry2, drivers, session_state>>

CallGetWeatherData ==
    \E session \in Sessions, raises \in BOOLEAN :
        LET r == get_weather_data(cache, session, raises)
        IN  /\ ~InFastestLap
            /\ Room(r.cache)
            /\ called' = "get_weather_data"
            /\ param' = [session |-> session]
            /\ result' = r.value
            /\ cache' = r.cache
            /\ UNCHANGED <<lap_times, laps_df, telemetry_df, telemetry2, drivers, session_state>>

\* ttl=3600: an entry is dropped an hour after it was stored
CacheExpire ==
    \E key \in DOMAIN cache :
        /\ cache' = [k \in DOMAIN cache \ {key} |-> cache[k]]
        /\ UNCHANGED <<lap_times, laps_df, telemetry_df, telemetry2, drivers, session_state,
                       called, param, result>>

NextLoader ==
    \/ CallGetEventSchedule
    \/ CallGetAvailableYears
    \/ CallLoadSession
    \/ CallGetSessionInfo
    \/ CallGetDriverInfo
    \/ CallGetDriverLaps
    \/ CallGetFastestLap
    \/ ReturnFastestLap
    \/ CallGetLapTelemetry
    \/ CallGetRaceResults
    \/ CallGetWeatherData
    \/ CacheExpire

SpecLoader == InitLoader /\ [][NextLoader]_vars

\* C24: a load_session call that returns a session returns the session of the
\* (year, grand prix, session type) passed to that call, never one that an
\* earlier call loaded for other arguments.
C24_LoadReturnsRequestedSession ==
    (called = "load_session" /\ result # None) => result = Session(param)

\* C25: each of get_session_info, get_driver_laps, get_fastest_lap,
\* get_lap_telemetry, get_race_results and get_weather_data returns the data of
\* the session passed to the current call, whatever calls came before; none
\* returns a value computed from a session passed earlier.
C25_GettersUseCurrentSession ==
    /\ called = "get_session_info" =>
           \E r \in BOOLEAN : result = SessionInfo(param.session, r)
    /\ called = "get_driver_laps" =>
           \E r \in BOOLEAN : result = DriverLaps(param.session, param.driver_code, r)
    /\ called = "get_fastest_lap" =>
           \E r, p \in BOOLEAN :
               result = FastestLap(DriverLaps(param.session, param.driver_code, r), p)
    /\ called = "get_lap_telemetry" =>
           \E r \in BOOLEAN :
               result = LapTelemetry(param.session, param.driver_code, param.lap_number, r)
    /\ called = "get_race_results" =>
           \E r \in BOOLEAN : result = RaceResults(param.session, r)
    /\ called = "get_weather_data" =>
           \E r \in BOOLEAN : result = WeatherData(param.session, r)

----------------------------------------------------------------------------
(* the pages: a run of a page script, one step per cache operation and per
   assignment to st.session_state.  called is the line the run of this browser
   session has reached, param its locals.  The cache is shared with the runs of
   other browser sessions; session_state holds the keys the page code assigns
   in this one (the values Streamlit keeps for its own widgets are not part of
   it).  A new interaction stops the run wherever it is and starts the next. *)

\* st.session_state[key] = value
SetItem(ss, key, value) == [k \in DOMAIN ss \cup {key} |-> IF k = key THEN value ELSE ss[k]]

\* mutant: what load_session returned is stored without the test of it
Mut_store_without_check(ss, key, session) == SetItem(ss, key, session)

\* if session: st.session_state[key] = session
StoreSession(ss, key, session) ==
    IF session # None THEN SetItem(ss, key, session) ELSE ss

\* st.session_state[flag] = True, the next statement under the same if
SetLoaded(ss, flag) == SetItem(ss, flag, TRUE)

\* if flag in st.session_state and st.session_state[flag]
MainContentShown(ss, flag) == flag \in DOMAIN ss /\ ss[flag] = TRUE

\* param holds the values the rest of the run reads: click, what the Load
\* button returns, until the if that reads it; selection, what the sidebar
\* selects, until load_session is called with it; session, what load_session
\* returned (None when it was not called), until line 84 (97 in Live Race)
\* binds the name to the stored session; auto_refresh, the checkbox of Live
\* Race.  A run that is over has no locals.

\* the sessions the sidebar can select in a year
Selectable(year) == {a \in SessionArgs : a.year = year}

\* the years of the list the selectbox of Race Analysis offers
Offered(years) == {years[i] : i \in 1..Len(years)}

InitPages ==
    /\ lap_times = <<>>
    /\ laps_df = NoFrame
    /\ telemetry_df = NoFrame
    /\ telemetry2 = NoFrame
    /\ drivers = <<>>
    /\ called = "none"
    /\ param = NaN
    /\ result = None
    /\ cache = NoCache
    /\ session_state = NoSessionState

\* Race_analysis.py:42-43: a run starts (stopping the run before it), reads
\* the years and takes the year selected among them
StartRaceAnalysis ==
    \E click \in BOOLEAN, current_year \in ClockYears :
        LET years == get_available_years(cache, current_year)
        IN  \E selected_year \in Offered(years.value) \cap ClockYears :
            \E selection \in Selectable(selected_year) :
                /\ called' = "Race_analysis.46"
                /\ param' = [click |-> click, selection |-> selection]
                /\ result' = None
                /\ cache' = years.cache
                /\ UNCHANGED <<lap_times, laps_df, telemetry_df, telemetry2, drivers,
                               session_state>>

\* Race_analysis.py:46-71: the schedule of the selected year; the Load button
\* exists only when it is not empty
RaceGetSchedule ==
    /\ called = "Race_analysis.46"
    /\ \E fetched \in {Schedule(param.selection.year), EmptyFrame} :
        LET schedule == get_event_schedule(cache, param.selection.year, fetched)
            clicked == schedule.value # EmptyFrame /\ param.click
        IN  /\ called' = IF clicked THEN "Race_analysis.73" ELSE "Race_analysis.83"
            /\ param' = IF clicked THEN [selection |-> param.selection]
                        ELSE [click |-> FALSE, session |-> None]
            /\ cache' = schedule.cache
            /\ UNCHANGED <<lap_times, laps_df, telemetry_df, telemetry2, drivers,
                           session_state, result>>

\* Race_analysis.py:73: load_session returns
RaceLoadSession ==
    /\ called = "Race_analysis.73"
    /\ \E loaded \in {Session(param.selection), None} :
        LET r == load_session(cache, param.selection, loaded)
        IN  /\ called' = "Race_analysis.75"
            /\ param' = [click |-> TRUE, session |-> r.value]
            /\ cache' = r.cache
            /\ UNCHANGED <<lap_times, laps_df, telemetry_df, telemetry2, drivers,
                           session_state, result>>

\* Race_analysis.py:75-76: the test of what load_session returned and, when
\* it is a session, the assignment of the session
RaceStoreSession ==
    /\ called = "Race_analysis.75"
    /\ called' = IF param.session # None THEN "Race_analysis.77" ELSE "Race_analysis.83"
    /\ session_state' = StoreSession(session_state, "session", param.session)
    /\ UNCHANGED <<lap_times, laps_df, telemetry_df, telemetry2, drivers, cache, param,
                   result>>

\* Race_analysis.py:77-78: the assignment of the flag, then st.success
RaceSetLoaded ==
    /\ called = "Race_analysis.77"
    /\ called' = "Race_analysis.83"
    /\ session_state' = SetLoaded(session_state, "session_loaded")
    /\ UNCHANGED <<lap_times, laps_df, telemetry_df, telemetry2, drivers, cache, param,
                   result>>

\* Race_analysis.py:83-257: the main content.  An exception of
\* get_session_info, or of session.name when the stored object is None, ends
\* the run.  For a race the run goes on to the get_race_results of the Results
\* tab (line 108).  For any other session the Results and Positions tabs show
\* a notice and the run goes through the Lap Times and Tire Strategy tabs to
\* its end: their reads of session.drivers (lines 146, 232) and session.laps
\* (lines 156, 241) raise DataNotLoadedError when the load left the data out.
RaceMainContent ==
    \E raises \in BOOLEAN, laps_raise \in BOOLEAN :
        LET shown == MainContentShown(session_state, "session_loaded")
            session == session_state["session"]
            info == get_session_info(cache, session, raises)
            race == /\ info.value.kind # "raise"
                    /\ session # None
                    /\ SessionName(session) = "Race"
        IN  /\ called = "Race_analysis.83"
            /\ IF ~shown
               THEN /\ called' = "Race_analysis.end"
                    /\ param' = NaN
                    /\ result' = None
                    /\ cache' = cache
               ELSE /\ cache' = info.cache
                    /\ result' = IF info.value.kind = "raise" THEN info.value
                                 ELSE IF session = None THEN Raise("AttributeError")
                                 ELSE IF SessionName(session) # "Race" /\ laps_raise
                                 THEN Raise("DataNotLoadedError")
                                 ELSE None
                    /\ called' = IF race THEN "Race_analysis.108" ELSE "Race_analysis.end"
                    /\ param' = IF race THEN [session |-> session] ELSE NaN
            /\ UNCHANGED <<lap_times, laps_df, telemetry_df, telemetry2, drivers,
                           session_state>>

\* Race_analysis.py:108-211: the results of the Results tab, then the Lap
\* Times tab and the chart of the Positions tab, whose reads of
\* session.drivers (lines 146, 197) and session.laps (lines 156, 205) can end
\* the run
RaceResultsTab ==
    /\ called = "Race_analysis.108"
    /\ \E raises \in BOOLEAN, laps_raise \in BOOLEAN :
        LET r == get_race_results(cache, param.session, raises)
        IN  /\ called' = IF laps_raise THEN "Race_analysis.end" ELSE "Race_analysis.212"
            /\ param' = IF laps_raise THEN NaN ELSE param
            /\ result' = IF laps_raise THEN Raise("DataNotLoadedError") ELSE None
            /\ cache' = r.cache
            /\ UNCHANGED <<lap_times, laps_df, telemetry_df, telemetry2, drivers,
                           session_state>>

\* Race_analysis.py:212-257: the results again, for the Positions tab, then
\* the Tire Strategy tab, which reads session.drivers (line 232) and
\* session.laps (line 241) as the tabs before it did
RacePositionsTab ==
    /\ called = "Race_analysis.212"
    /\ \E raises \in BOOLEAN :
        LET r == get_race_results(cache, param.session, raises)
        IN  /\ called' = "Race_analysis.end"
            /\ param' = NaN
            /\ cache' = r.cache
            /\ UNCHANGED <<lap_times, laps_df, telemetry_df, telemetry2, drivers,
                           session_state, result>>

\* Live_Race.py:29-79: a run starts (stopping the run before it); the year is
\* the clock's, the schedule comes from fastf1 uncached, and when that raises
\* the except of line 92 skips the Load button.  The st.rerun() of line 328,
\* once time.sleep(30) is over, is such a start with no button clicked.
StartLiveRace ==
    \E click \in BOOLEAN, auto_refresh \in BOOLEAN, schedule_ok \in BOOLEAN :
    \E current_year \in ClockYears : \E selection \in Selectable(current_year) :
        /\ called' = IF schedule_ok /\ click THEN "Live_Race.82" ELSE "Live_Race.96"
        /\ param' = IF schedule_ok /\ click
                    THEN [selection |-> selection, auto_refresh |-> auto_refresh]
                    ELSE [click |-> FALSE, session |-> None, auto_refresh |-> auto_refresh]
        /\ result' = None
        /\ UNCHANGED <<lap_times, laps_df, telemetry_df, telemetry2, drivers, cache,
                       session_state>>

\* Live_Race.py:82: load_session returns
LiveLoadSession ==
    /\ called = "Live_Race.82"
    /\ \E loaded \in {Session(param.selection), None} :
        LET r == load_session(cache, param.selection, loaded)
        IN  /\ called' = "Live_Race.84"
            /\ param' = [click |-> TRUE, session |-> r.value,
                         auto_refresh |-> param.auto_refresh]
            /\ cache' = r.cache
            /\ UNCHANGED <<lap_times, laps_df, telemetry_df, telemetry2, drivers,
                           session_state, result>>

\* Live_Race.py:84-85: the test of what load_session returned and, when it
\* is a session, the assignment of the session
LiveStoreSession ==
    /\ called = "Live_Race.84"
    /\ called' = IF param.session # None THEN "Live_Race.86" ELSE "Live_Race.96"
    /\ session_state' = StoreSession(session_state, "live_session", param.session)
    /\ UNCHANGED <<lap_times, laps_df, telemetry_df, telemetry2, drivers, cache, param,
                   result>>

\* Live_Race.py:86-87: the assignment of the flag, then st.success
LiveSetLoaded ==
    /\ called = "Live_Race.86"
    /\ called' = "Live_Race.96"
    /\ session_state' = SetLoaded(session_state, "live_session_loaded")
    /\ UNCHANGED <<lap_times, laps_df, telemetry_df, telemetry2, drivers, cache, param,
                   result>>

\* Live_Race.py:96-325: the live session data.  An exception of
\* get_session_info or of the tabs' reads of session.laps ends the run; a run
\* that gets through sleeps at line 327 when the checkbox is ticked.
LiveMainContent ==
    /\ called = "Live_Race.96"
    /\ \E raises \in BOOLEAN, laps_raise \in BOOLEAN :
        LET shown == MainContentShown(session_state, "live_session_loaded")
            session == session_state["live_session"]
            info == get_session_info(cache, session, raises)
            sleeps == /\ info.value.kind # "raise"
                      /\ session # None
                      /\ ~laps_raise
                      /\ param.auto_refresh
        IN  /\ IF ~shown
               THEN /\ called' = "Live_Race.end"
                    /\ param' = NaN
                    /\ result' = None
                    /\ cache' = cache
               ELSE /\ cache' = info.cache
                    /\ result' = IF info.value.kind = "raise" THEN info.value
                                 ELSE IF session = None THEN Raise("AttributeError")
                                 ELSE IF laps_raise THEN Raise("DataNotLoadedError")
                                 ELSE None
                    /\ called' = IF sleeps THEN "Live_Race.327" ELSE "Live_Race.end"
                    /\ param' = IF sleeps THEN [session |-> session, auto_refresh |-> TRUE]
                                ELSE NaN
            /\ UNCHANGED <<lap_times, laps_df, telemetry_df, telemetry2, drivers,
                           session_state>>

\* the caches a cache operation of the run of another browser session leaves;
\* the pages call get_race_results for a race only (Race_analysis.py:107, 195)
OtherSessionCaches ==
    {get_available_years(cache, y).cache : y \in ClockYears}
    \cup UNION {{get_event_schedule(cache, y, f).cache : f \in {Schedule(y), EmptyFrame}} :
                   y \in ClockYears}
    \cup UNION {{load_session(cache, a, l).cache : l \in {Session(a), None}} :
                   a \in SessionArgs}
    \cup {get_session_info(cache, s, FALSE).cache : s \in Sessions}
    \cup {get_race_results(cache, s, r).cache :
             s \in {x \in Sessions : SessionName(x) = "Race"}, r \in BOOLEAN}

\* a page run of another browser session calls one of the cached functions
OtherSessionCall ==
    /\ cache' \in OtherSessionCaches \ {cache}
    /\ UNCHANGED <<lap_times, laps_df, telemetry_df, telemetry2, drivers, session_state,
                   called, param, result>>

NextPages ==
    \/ StartRaceAnalysis
    \/ RaceGetSchedule
    \/ RaceLoadSession
    \/ RaceStoreSession
    \/ RaceSetLoaded
    \/ RaceMainContent
    \/ RaceResultsTab
    \/ RacePositionsTab
    \/ StartLiveRace
    \/ LiveLoadSession
    \/ LiveStoreSession
    \/ LiveSetLoaded
    \/ LiveMainContent
    \/ OtherSessionCall
    \/ CacheExpire

SpecPages == InitPages /\ [][NextPages]_vars

\* the flag of a page is true only with a session object stored under its key
FlagImpliesSession(key, flag) ==
    MainContentShown(session_state, flag) =>
        /\ key \in DOMAIN session_state
        /\ session_state[key] \in Sessions

\* the run is at the lines that test and store what load_session returned, or
\* at the assignment of the flag that follows them
AtStore == called \in {"Race_analysis.75", "Race_analysis.77", "Live_Race.84", "Live_Race.86"}

\* C26: on both pages, over any sequence of reruns and Load clicks, the loaded
\* flag (session_loaded / live_session_loaded) is true only if session_state
\* holds a session object that is not None, and a Load click whose load fails
\* leaves the flag and the session stored before unchanged: session_state
\* changes only in the two assignments of a run whose load_session returned a
\* session, and a run whose load failed reaches neither.
C26_FlagOnlyWithSession ==
    /\ [](FlagImpliesSession("session", "session_loaded")
          /\ FlagImpliesSession("live_session", "live_session_loaded"))
    /\ [][(AtStore /\ param.session = None) => session_state' = session_state]_vars
    /\ [][session_state' # session_state => (AtStore /\ param.session \in Sessions)]_vars

\* a run whose Load click failed has passed the store and is about to show
\* the main content, and the session of an earlier load is still there with
\* its flag
C26_Witness ==
    /\ called = "Race_analysis.83"
    /\ param.click
    /\ param.session = None
    /\ MainContentShown(session_state, "session_loaded")
    /\ session_state["session"] \in Sessions

----------------------------------------------------------------------------
(* Live_Race.py, the Live Standings tab: the Gap to Leader table *)

\* the last present value of a column among a driver's laps, NaN when none:
\* one cell of laps.groupby('Driver').last()
LastPresent(rows, d, c) ==
    LET I == {i \in 1..Len(rows) : rows[i].Driver = d /\ ~isna(rows[i][c])}
    IN  IF I = {} THEN NaN ELSE rows[CHOOSE i \in I : \A j \in I : j <= i][c]

\* laps.groupby('Driver').last().reset_index(): one row per driver of the
\* table, in sorted key order
RECURSIVE GroupLast(_, _, _)
GroupLast(rows, cols, keys) ==
    IF keys = <<>> THEN <<>>
    ELSE IF \E i \in 1..Len(rows) : rows[i].Driver = Head(keys)
         THEN <<[c \in cols |-> IF c = "Driver" THEN Head(keys)
                                ELSE LastPresent(rows, Head(keys), c)]>>
              \o GroupLast(rows, cols, Tail(keys))
         ELSE GroupLast(rows, cols, Tail(keys))

\* sort_values('Position') with the default (unstable) algorithm: the rows with
\* a position in every non-decreasing arrangement, then the rows without one in
\* the order they had
SortValuesByPosition(rows) ==
    LET placed == SelectSeq(rows, LAMBDA r : ~isna(r.Position))
        unplaced == SelectSeq(rows, LAMBDA r : isna(r.Position))
        n == Len(placed)
        perms == {f \in [1..n -> 1..n] : \A a, b \in 1..n : f[a] = f[b] => a = b}
    IN  {[k \in 1..n |-> placed[f[k]]] \o unplaced :
            f \in {g \in perms :
                      \A k \in 1..n - 1 :
                          FLe(placed[g[k]].Position, placed[g[k + 1]].Position)}}

\* f"{gap:.3f}": the gap in thousandths of a second, rounded to the nearest
\* and, when it lies halfway between two, to the even one
Fixed3(gap) ==
    LET below == (1000 * gap.num) \div gap.den
        rest == (1000 * gap.num) % gap.den
        t == IF 2 * rest > gap.den \/ (2 * rest = gap.den /\ below % 2 = 1)
             THEN below + 1
             ELSE below
    IN  [units |-> t \div 1000, thousandths |-> t % 1000]

\* f"+{gap:.3f}s" if gap > 0 else "Leader"
GapText(gap) ==
    IF FGt(gap, Flt(0)) THEN <<"+", Fixed3(gap), "s">> ELSE <<"Leader">>

\* the loop over latest_laps.iterrows(): rows without a present LapTime are
\* skipped, the first row with one sets leader_time
RECURSIVE LiveGapLoop(_, _)
LiveGapLoop(rows, leader_time) ==
    IF rows = <<>> THEN <<>>
    ELSE LET row == Head(rows)
         IN  IF "LapTime" \in DOMAIN row /\ ~isna(row.LapTime)
             THEN LET current_time == row.LapTime
                      gap == IF leader_time = None THEN Flt(0)
                             ELSE FSub(current_time, leader_time)
                  IN  <<[Position |-> row.Position, Driver |-> row.Driver,
                         Gap |-> GapText(gap)]>>
                      \o LiveGapLoop(Tail(rows),
                             IF leader_time = None THEN current_time ELSE leader_time)
             ELSE LiveGapLoop(Tail(rows), leader_time)

GapTableColumns == {"Position", "Driver", "Gap"}

\* the tables the tab can show under "Gap to Leader", None when it shows none
LiveGapTable(laps) ==
    IF laps.rows = <<>> THEN {None}
    ELSE LET latest_laps == GroupLast(laps.rows, laps.columns, DriversSorted)
         IN  IF "Position" \notin laps.columns \/ Len(latest_laps) <= 1 THEN {None}
             ELSE {IF LiveGapLoop(sorted, None) = <<>> THEN None
                   ELSE Frame(GapTableColumns, LiveGapLoop(sorted, None)) :
                      sorted \in SortValuesByPosition(latest_laps)}

LiveDrivers == {"HAM", "LEC", "VER"}
LiveLapTimes == {Flt(89), Flt(90), NaN}
LivePositions == {Flt(1), Flt(2), NaN}

LiveColumnSets ==
    {{"Driver", "LapNumber", "LapTime", "Position"},
     {"Driver", "LapNumber", "LapTime"},
     {"Driver", "LapNumber", "Position"}}

LiveLap(i, cell) ==
    [Driver |-> cell.Driver, LapNumber |-> Flt(i), LapTime |-> cell.LapTime,
     Position |-> cell.Position]

\* session.laps of the loaded session
LiveTables ==
    {[columns |-> cols, rows |-> [i \in 1..Len(c) |-> Restrict(LiveLap(i, c[i]), cols)]] :
        cols \in LiveColumnSets,
        c \in SeqsUpTo([Driver : LiveDrivers, LapTime : LiveLapTimes,
                        Position : LivePositions], MaxLiveRows)}

InitLive ==
    /\ lap_times = <<>>
    /\ laps_df \in LiveTables
    /\ telemetry_df = NoFrame
    /\ telemetry2 = NoFrame
    /\ drivers = <<>>
    /\ called = "none"
    /\ param = NaN
    /\ result = None
    /\ cache = NoCache
    /\ session_state = NoSessionState

ShowLiveStandings ==
    \E r \in LiveGapTable(laps_df) :
        /\ called' = "Live Standings"
        /\ param' = NaN
        /\ result' = r
        /\ UNCHANGED <<lap_times, laps_df, telemetry_df, telemetry2, drivers, cache, session_state>>

NextLive == ShowLiveStandings

SpecLive == InitLive /\ [][NextLive]_vars

\* a driver's latest present value of a column of the session's laps
Latest(d, c) == LastPresent(laps_df.rows, d, c)

\* the drivers with a present latest lap time
LiveTimed == {d \in LiveDrivers : ~isna(Latest(d, "LapTime"))}

\* d is placed at least as well as e: a position, and one not behind e's
NotBehind(d, e) ==
    /\ ~isna(Latest(d, "Position")) \/ isna(Latest(e, "Position"))
    /\ isna(Latest(e, "Position")) \/ FLe(Latest(d, "Position"), Latest(e, "Position"))

GapTableShown == called = "Live Standings" /\ result # None

\* C27: in the Gap to Leader table exactly one row is labelled "Leader", it is
\* the best-positioned driver with a present latest lap time, and every other
\* listed driver is shown with a "+<gap>s" value, whatever the latest lap times.
C27_ExactlyOneLeader ==
    GapTableShown =>
        LET rows == result.value.rows
            leaders == {k \in 1..Len(rows) : rows[k].Gap = <<"Leader">>}
        IN  /\ Cardinality(leaders) = 1
            /\ \A k \in leaders :
                   /\ rows[k].Driver \in LiveTimed
                   /\ \A e \in LiveTimed : NotBehind(rows[k].Driver, e)
            /\ \A k \in 1..Len(rows) : k \notin leaders => rows[k].Gap[1] = "+"

====
